---- MODULE Spec2Model ----
(***************************************************************************)
(* A model of syntaq.py: the HTML writer (class HTML), the marker lexer    *)
(* (class Partitioner), the inline renderer (class Text) and the table-row *)
(* splitter and renderer (class TableRow).                                 *)
(*                                                                         *)
(* A Python string is a sequence of one-character strings; a list of       *)
(* strings is a sequence of such sequences.  Indices p, q, start, end of   *)
(* the lexer are 0-based as in the source.                                 *)
(***************************************************************************)
EXTENDS Integers, Sequences, FiniteSets, TLC

VARIABLES out, pre, call, raised, calls, source, tokens, token, cells, doc, pc

vars == <<out, pre, call, raised, calls, source, tokens, token, cells, doc, pc>>

-----------------------------------------------------------------------------
(* Bounds of the model                                                     *)

MaxCalls == 4
MaxPieces == 4
MaxRowPieces == 4
MaxCellPieces == 5
MaxDocLines == 4

-----------------------------------------------------------------------------
(* Python values and string helpers                                        *)

None == <<"None">>

\* the grave accent character, which a TLA+ string cannot hold
Grave == "GRAVE"

\* no document is being parsed
NoDocument == <<>>

NoExc == "none"
NoOpenTag == "ValueError: No tags to close"
UnmatchedTag == "ValueError: End tag should have corresponding start tag"
AmbiguousContent == "ValueError: Cannot specify multiple content types"
NoCell == "IndexError: list index out of range"
NotARow == "ValueError: Table row must start with '|'"

Min(a, b) == IF a < b THEN a ELSE b

Max(a, b) == IF a < b THEN b ELSE a

Last(s) == s[Len(s)]

Front(s) == SubSeq(s, 1, Len(s) - 1)

In(x, s) == \E i \in 1..Len(s) : s[i] = x

Reverse(s) == [i \in 1..Len(s) |-> s[Len(s) + 1 - i]]

\* source[a:b] with 0-based, clipped indices
Slice(s, a, b) == SubSeq(s, a + 1, Min(b, Len(s)))

\* "".join(list)
RECURSIVE Join(_)
Join(list) == IF list = <<>> THEN <<>> ELSE Head(list) \o Join(Tail(list))

\* list(text): one list entry per character
Chars(text) == [i \in 1..Len(text) |-> <<text[i]>>]

StartsWith(s, prefix) == Len(s) >= Len(prefix) /\ SubSeq(s, 1, Len(prefix)) = prefix

EndsWith(s, suffix) ==
    Len(s) >= Len(suffix) /\ SubSeq(s, Len(s) - Len(suffix) + 1, Len(s)) = suffix

Whitespace == {" ", "\t", "\n", "\r"}

RECURSIVE lstrip(_)
lstrip(s) == IF s # <<>> /\ Head(s) \in Whitespace THEN lstrip(Tail(s)) ELSE s

RECURSIVE rstrip(_)
rstrip(s) == IF s # <<>> /\ Last(s) \in Whitespace THEN rstrip(Front(s)) ELSE s

strip(s) == lstrip(rstrip(s))

-----------------------------------------------------------------------------
(* class HTML                                                              *)

entity(ch) ==
    CASE ch = "&" -> <<"&", "a", "m", "p", ";">>
      [] ch = "'" -> <<"&", "a", "p", "o", "s", ";">>
      [] ch = "\"" -> <<"&", "q", "u", "o", "t", ";">>
      [] ch = "<" -> <<"&", "l", "t", ";">>
      [] ch = ">" -> <<"&", "g", "t", ";">>
      [] OTHER -> <<ch>>

RECURSIVE entities(_)
entities(text) ==
    IF text = <<>> THEN <<>> ELSE entity(Head(text)) \o entities(Tail(text))

\* HTML.__init__; exc is the exception in flight, NoExc when there is none
HTML(processor) ==
    [tokens |-> <<>>, stack |-> <<>>, token_buffer |-> <<>>,
     processor |-> processor, exc |-> NoExc]

html(o) == Join(o.tokens)

raise(o, e) == [o EXCEPT !.exc = e]

RECURSIVE auto_link(_)
RECURSIVE flush(_)

process(o, buffer) ==
    IF o.processor = "auto_link" THEN auto_link(buffer) ELSE entities(buffer)

flush(o) ==
    IF o.exc # NoExc THEN o
    ELSE IF o.token_buffer # <<>>
    THEN [o EXCEPT !.tokens = Append(o.tokens, process(o, Join(o.token_buffer))),
                   !.token_buffer = <<>>]
    ELSE o

\* write_html that appends without flushing the pending buffer first
write_html_no_flush(o, h) ==
    IF o.exc # NoExc THEN o
    ELSE [o EXCEPT !.tokens = Append(@, h)]

write_html(o, h) ==
    IF o.exc # NoExc THEN o
    ELSE [flush(o) EXCEPT !.tokens = Append(@, h)]

write_text(o, text, post_process) ==
    IF o.exc # NoExc THEN o
    ELSE IF post_process
    THEN [o EXCEPT !.token_buffer = o.token_buffer \o Chars(text)]
    ELSE [flush(o) EXCEPT !.tokens = @ \o Chars(entities(text))]

write_raw(o, text) ==
    IF o.exc # NoExc THEN o
    ELSE [flush(o) EXCEPT !.tokens = @ \o Chars(text)]

\* the keys the program passes, in sorted() order, and their characters
SortedKeys == <<"alt", "class", "href", "src", "style">>

KeyChars ==
    [alt |-> <<"a", "l", "t">>, class |-> <<"c", "l", "a", "s", "s">>,
     href |-> <<"h", "r", "e", "f">>, src |-> <<"s", "r", "c">>,
     style |-> <<"s", "t", "y", "l", "e">>]

NoAttributes == [k \in {} |-> None]

\* " ".join('{0}="{1}"'.format(key, HTML.entities(str(value))) ...)
RECURSIVE attribute_text(_, _, _)
attribute_text(attributes, i, first) ==
    IF i > Len(SortedKeys) THEN <<>>
    ELSE LET key == SortedKeys[i] IN
         IF key \in DOMAIN attributes /\ attributes[key] # None
         THEN (IF first THEN <<>> ELSE <<" ">>)
              \o KeyChars[key] \o <<"=", "\"">> \o entities(attributes[key]) \o <<"\"">>
              \o attribute_text(attributes, i + 1, FALSE)
         ELSE attribute_text(attributes, i + 1, first)

tag(o, t, attributes) ==
    IF DOMAIN attributes # {}
    THEN write_html(o, <<"<">> \o t \o <<" ">> \o attribute_text(attributes, 1, TRUE) \o <<">">>)
    ELSE write_html(o, <<"<">> \o t \o <<">">>)

start_tag(o, t, attributes, void) ==
    IF o.exc # NoExc THEN o
    ELSE [tag(o, t, attributes) EXCEPT !.stack = IF void THEN @ ELSE Append(@, t)]

\* end_tag_loop with the break taken only once no entry named t is left
RECURSIVE end_tag_loop_all(_, _)
end_tag_loop_all(o, t) ==
    LET top == Last(o.stack)
        o1 == write_html([o EXCEPT !.stack = Front(o.stack)], <<"<", "/">> \o top \o <<">">>)
    IN  IF ~In(t, o1.stack) THEN o1 ELSE end_tag_loop_all(o1, t)

\* the loop of end_tag: pop and close until tag t has been closed
RECURSIVE end_tag_loop(_, _)
end_tag_loop(o, t) ==
    LET top == Last(o.stack)
        o1 == write_html([o EXCEPT !.stack = Front(o.stack)], <<"<", "/">> \o top \o <<">">>)
    IN  IF top = t THEN o1 ELSE end_tag_loop(o1, t)

\* end_tag flushing the pending buffer before it looks at the stack
end_tag_flush_first(o, t) ==
    IF o.exc # NoExc THEN o
    ELSE LET o1 == flush(o) IN
         IF o1.stack = <<>> THEN raise(o1, NoOpenTag)
         ELSE LET name == IF t = None \/ t = <<>> THEN Last(o1.stack) ELSE t IN
              IF ~In(name, o1.stack) THEN raise(o1, UnmatchedTag)
              ELSE end_tag_loop(o1, name)

end_tag(o, t) ==
    IF o.exc # NoExc THEN o
    ELSE IF o.stack = <<>> THEN raise(o, NoOpenTag)
    ELSE LET name == IF t = None \/ t = <<>> THEN Last(o.stack) ELSE t IN
         IF ~In(name, o.stack) THEN raise(o, UnmatchedTag)
         ELSE end_tag_loop(o, name)

Truthy(x) == x # None /\ x # <<>>

\* the content of an element: past the check at most one of html, text and
\* raw is given, and it is written
element_content(o, h, text, raw) ==
    IF Truthy(h) THEN write_html(o, h)
    ELSE IF Truthy(text) THEN write_text(o, text, FALSE)
    ELSE IF Truthy(raw) THEN write_raw(o, raw)
    ELSE o

element(o, t, attributes, h, text, raw) ==
    IF o.exc # NoExc THEN o
    ELSE IF Cardinality({k \in {"html", "text", "raw"} :
                          Truthy([html |-> h, text |-> text, raw |-> raw][k])}) > 1
    THEN raise(o, AmbiguousContent)
    ELSE end_tag(element_content(start_tag(o, t, attributes, FALSE), h, text, raw), None)

\* close_loop taking the tags from the bottom of the stack
RECURSIVE close_loop_outermost_first(_)
close_loop_outermost_first(o) ==
    IF o.stack = <<>> THEN o
    ELSE close_loop_outermost_first(write_html([o EXCEPT !.stack = Tail(o.stack)],
                                               <<"<", "/">> \o Head(o.stack) \o <<">">>))

RECURSIVE close_loop(_)
close_loop(o) ==
    IF o.stack = <<>> THEN o
    ELSE close_loop(write_html([o EXCEPT !.stack = Front(o.stack)],
                               <<"<", "/">> \o Last(o.stack) \o <<">">>))

\* close that flushes and leaves the open tags open
close_flush_only(o) == IF o.exc # NoExc THEN o ELSE flush(o)

close(o) == IF o.exc # NoExc THEN o ELSE close_loop(flush(o))

-----------------------------------------------------------------------------
(* URI_PATTERN and auto_link.  The pattern is modelled on texts without    *)
(* parentheses and without upper-case or non-ASCII characters, where its   *)
(* body is [^\s<>]+ and its last character is one outside the listed       *)
(* punctuation.                                                            *)

Lower == {"a", "b", "c", "d", "e", "f", "g", "h", "i", "j", "k", "l", "m",
          "n", "o", "p", "q", "r", "s", "t", "u", "v", "w", "x", "y", "z"}

Digits == {"0", "1", "2", "3", "4", "5", "6", "7", "8", "9"}

WordChars == Lower \cup Digits \cup {"_"}

NotBody == Whitespace \cup {"(", ")", "<", ">"}

NotTail == Whitespace \cup {Grave, "!", "(", ")", "[", "]", "{", "}", ";", ":",
                            "'", "\"", ".", ",", "<", ">", "?"}

\* text[i], 1-based, or a blank outside the text
At(text, i) == IF i >= 1 /\ i <= Len(text) THEN text[i] ELSE " "

\* \b before position i
WordBoundary(text, i) == (At(text, i - 1) \in WordChars) # (At(text, i) \in WordChars)

\* the positions where the first part of the pattern, begun at i, can end
HeadEnds(text, i) ==
    LET n == Len(text)
        scheme == {c + 1 : c \in {c \in (i + 2)..n :
                      /\ text[i] \in Lower
                      /\ text[c] = ":"
                      /\ \A k \in (i + 1)..(c - 1) : text[k] \in WordChars \cup {"-"}
                      /\ At(text, c + 1) \in {"/"} \cup Lower \cup Digits \cup {"%"}}}
        www == {i + 3 + d : d \in {d \in 0..3 :
                      /\ At(text, i) = "w" /\ At(text, i + 1) = "w" /\ At(text, i + 2) = "w"
                      /\ \A k \in 1..d : At(text, i + 2 + k) \in Digits
                      /\ At(text, i + 3 + d) = "."}}
        host == {d + m + 1 : <<d, m>> \in {dm \in ((i + 1)..n) \X (2..4) :
                      /\ \A k \in i..(dm[1] - 1) : text[k] \in Lower \cup Digits \cup {".", "-"}
                      /\ text[dm[1]] = "."
                      /\ \A k \in 1..dm[2] : At(text, dm[1] + k) \in Lower
                      /\ At(text, dm[1] + dm[2] + 1) = "/"}}
    IN  scheme \cup www \cup host

\* the last position of the run of body characters that holds position i
RECURSIVE RunEnd(_, _)
RunEnd(text, i) ==
    IF i < Len(text) /\ text[i + 1] \notin NotBody THEN RunEnd(text, i + 1) ELSE i

\* the end of the match of URI_PATTERN that starts at i, 0 when there is none
MatchEnd(text, i) ==
    IF ~WordBoundary(text, i) THEN 0
    ELSE LET ends == {e \in i..RunEnd(text, i) : text[e] \notin NotTail}
             e == IF ends = {} THEN 0 ELSE CHOOSE x \in ends : \A y \in ends : y <= x
         IN  IF \E j \in HeadEnds(text, i) : e >= j + 2 THEN e ELSE 0

\* URI_PATTERN.split(text) from position i on, with the run of text begun at p:
\* text, then per match its five groups and the text after it
RECURSIVE split(_, _, _)
split(text, p, i) ==
    IF i > Len(text) THEN <<SubSeq(text, p, Len(text))>>
    ELSE LET e == MatchEnd(text, i) IN
         IF e = 0 THEN split(text, p, i + 1)
         ELSE <<SubSeq(text, p, i - 1), SubSeq(text, i, e), None, None, None, None>>
              \o split(text, e + 1, e + 1)

RECURSIVE auto_link_loop(_, _, _)
auto_link_loop(o, bits, p) ==
    IF p < Len(bits)
    THEN LET url == bits[p + 1]
             o1 == element(o, <<"a">>, [href |-> url], None, url, None)
         IN  auto_link_loop(write_text(o1, bits[p + 6], FALSE), bits, p + 6)
    ELSE o

auto_link(text) ==
    LET bits == split(text, 1, 1)
    IN  html(auto_link_loop(write_text(HTML("entities"), bits[1], FALSE), bits, 1))

-----------------------------------------------------------------------------
(* Marker strings                                                          *)

Quote_INLINE_DELIMITER == <<"\"", "\"">>
Quote_BLOCK_DELIMITER == <<"\"", "\"", "\"">>
Code_INLINE_DELIMITER == <<Grave, Grave>>
Code_BLOCK_DELIMITER == <<Grave, Grave, Grave>>
Preformatted_BLOCK_START == <<"{", "{", "{">>
Preformatted_BLOCK_END == <<"}", "}", "}">>

Escape == <<"~">>
Pipe == <<"|">>
LinkOpen == <<"[", "[">>
LinkClose == <<"]", "]">>
ImageOpen == <<"{", "{">>
ImageClose == <<"}", "}">>
ScriptOpen == <<"<", "<">>
ScriptClose == <<">", ">">>
Http == <<"h", "t", "t", "p", ":", "/", "/">>
Https == <<"h", "t", "t", "p", "s", ":", "/", "/">>
Ftp == <<"f", "t", "p", ":", "/", "/">>
Mailto == <<"m", "a", "i", "l", "t", "o", ":">>
LeftArrow == <<"<", "-", "-">>
RightArrow == <<"-", "-", ">">>
LineBreak == <<"\\", "\\">>
Strong == <<"*", "*">>
Em == <<"/", "/">>
Sup == <<"^", "^">>
Sub == <<",", ",">>

\* dictionaries are sets of <<key, value>> pairs
HasKey(dict, key) == \E e \in dict : e[1] = key

Get(dict, key) == (CHOOSE e \in dict : e[1] = key)[2]

SIMPLE_TOKENS ==
    {<<LineBreak, <<"<", "b", "r", ">">>>>,
     <<RightArrow, <<"&", "r", "a", "r", "r", ";">>>>,
     <<LeftArrow, <<"&", "l", "a", "r", "r", ";">>>>}

TOGGLE_TOKENS ==
    {<<Em, <<"e", "m">>>>,
     <<Quote_INLINE_DELIMITER, <<"q">>>>,
     <<Strong, <<"s", "t", "r", "o", "n", "g">>>>,
     <<Sub, <<"s", "u", "b">>>>,
     <<Sup, <<"s", "u", "p">>>>}

BRACKET_TOKENS ==
    {<<ScriptOpen, <<ScriptClose, "script_writer">>>>,
     <<Code_INLINE_DELIMITER, <<Code_INLINE_DELIMITER, "code_writer">>>>,
     <<ImageOpen, <<ImageClose, "image_writer">>>>,
     <<Preformatted_BLOCK_START, <<Preformatted_BLOCK_END, "pre_writer">>>>}

-----------------------------------------------------------------------------
(* class Partitioner                                                       *)

Partitioner(escape, markers) ==
    LET all == IF Truthy(escape) THEN <<escape>> \o markers ELSE markers
    IN  [escape |-> escape, markers |-> all,
         marker_chars |-> {all[i][1] : i \in 1..Len(all)}]

\* the for loop over self.markers: the index of the first marker found at
\* start, 0 when the loop ends without a break
RECURSIVE match_marker(_, _, _, _)
match_marker(markers, src, start, k) ==
    IF k > Len(markers) THEN 0
    ELSE IF Slice(src, start, start + Len(markers[k])) = markers[k] THEN k
    ELSE match_marker(markers, src, start, k + 1)

\* partition_step yielding the marker without the escape character before it
partition_step_drop_escape(P, src, p, q) ==
    IF src[q + 1] \in P.marker_chars
    THEN LET start == IF Truthy(P.escape) /\ <<src[q + 1]>> = P.escape
                      THEN q + Len(P.escape) ELSE q
             k == match_marker(P.markers, src, start, 1)
             end == start + Len(P.markers[k])
         IN  IF k # 0
             THEN [yield |-> (IF q > p THEN <<Slice(src, p, q)>> ELSE <<>>)
                             \o <<Slice(src, start, end)>>,
                   p |-> end, q |-> end]
             ELSE [yield |-> <<>>, p |-> p, q |-> q + 1]
    ELSE [yield |-> <<>>, p |-> p, q |-> q + 1]

\* one pass of the while loop of partition: the tokens it yields and the
\* values of p and q after it
partition_step(P, src, p, q) ==
    IF src[q + 1] \in P.marker_chars
    THEN LET start == IF Truthy(P.escape) /\ <<src[q + 1]>> = P.escape
                      THEN q + Len(P.escape) ELSE q
             k == match_marker(P.markers, src, start, 1)
             end == start + Len(P.markers[k])
         IN  IF k # 0
             THEN [yield |-> (IF q > p THEN <<Slice(src, p, q)>> ELSE <<>>)
                             \o <<Slice(src, q, end)>>,
                   p |-> end, q |-> end]
             ELSE [yield |-> <<>>, p |-> p, q |-> q + 1]
    ELSE [yield |-> <<>>, p |-> p, q |-> q + 1]

\* the statement after the loop: the pending run is yielded
partition_end(src, p, q) == IF q > p THEN <<Slice(src, p, q)>> ELSE <<>>

RECURSIVE partition_loop(_, _, _, _)
partition_loop(P, src, p, q) ==
    IF q < Len(src)
    THEN IF src[q + 1] \in P.marker_chars
         THEN LET start == IF Truthy(P.escape) /\ <<src[q + 1]>> = P.escape
                           THEN q + Len(P.escape) ELSE q
                  k == match_marker(P.markers, src, start, 1)
                  end == start + Len(P.markers[k])
              IN  IF k # 0
                  THEN (IF q > p THEN <<Slice(src, p, q)>> ELSE <<>>)
                       \o <<Slice(src, q, end)>>
                       \o partition_loop(P, src, end, end)
                  ELSE partition_loop(P, src, p, q + 1)
         ELSE partition_loop(P, src, p, q + 1)
    ELSE IF q > p THEN <<Slice(src, p, q)>> ELSE <<>>

partition(P, src) == partition_loop(P, src, 0, 0)

-----------------------------------------------------------------------------
(* the content writers and class Text                                      *)

code_writer(o, src) == element(o, <<"c", "o", "d", "e">>, NoAttributes, None, src, None)

\* source.partition("|")[0::2]
str_partition(src, sep) ==
    LET hits == {i \in 1..Len(src) : src[i] = sep}
        i == CHOOSE x \in hits : \A y \in hits : x <= y
    IN  IF hits = {} THEN <<src, <<>>>>
        ELSE <<SubSeq(src, 1, i - 1), SubSeq(src, i + 1, Len(src))>>

image_writer(o, src) ==
    LET parts == str_partition(src, "|")
    IN  tag(o, <<"i", "m", "g">>,
            [src |-> parts[1], alt |-> IF parts[2] # <<>> THEN parts[2] ELSE None])

pre_writer(o, src) == write_text(o, src, FALSE)

script_writer(o, src) ==
    element(o, <<"s", "c", "r", "i", "p", "t">>, NoAttributes, None, None, src)

writer(name, o, src) ==
    CASE name = "script_writer" -> script_writer(o, src)
      [] name = "code_writer" -> code_writer(o, src)
      [] name = "image_writer" -> image_writer(o, src)
      [] name = "pre_writer" -> pre_writer(o, src)

TextPartitioner ==
    Partitioner(Escape,
        <<Http, Https, Ftp, Mailto, ScriptOpen, ScriptClose,
          Quote_BLOCK_DELIMITER, Preformatted_BLOCK_START, Preformatted_BLOCK_END,
          LeftArrow, RightArrow, LineBreak, ImageOpen, ImageClose,
          Code_INLINE_DELIMITER, Quote_INLINE_DELIMITER,
          Strong, Em, Sup, Sub, LinkOpen, LinkClose, Pipe>>)

\* Text.__init__: self.tokens
Text(src) == partition(TextPartitioner, src)

\* the inner "while tokens" loops of Text.html: tokens are taken until one of
\* ends is met or none is left; yields the tokens left, the last token taken
\* and the collected list
RECURSIVE collect(_, _, _, _)
collect(toks, tok, acc, ends) ==
    IF toks = <<>> THEN [tokens |-> toks, token |-> tok, source |-> acc]
    ELSE LET t == Head(toks) IN
         IF t \in ends THEN [tokens |-> Tail(toks), token |-> t, source |-> acc]
         ELSE IF t[1] = "~" THEN collect(Tail(toks), t, Append(acc, Tail(t)), ends)
         ELSE collect(Tail(toks), t, Append(acc, t), ends)

\* link_close without the try: the ValueError of end_tag leaves Text.html
link_close_unguarded(o, tok) == end_tag(o, <<"a">>)

\* the branch of Text.html for the token "]]": try end_tag("a"), on
\* ValueError write the token as text
link_close(o, tok) ==
    LET o1 == end_tag(o, <<"a">>)
    IN  IF o1.exc \in {NoOpenTag, UnmatchedTag}
        THEN write_text([o1 EXCEPT !.exc = NoExc], tok, FALSE)
        ELSE o1

\* text_token with a toggle token closing its tag only when the tag is the
\* innermost open tag
text_token_innermost_only(st) ==
    LET tok == Head(st.tokens)
        rest == Tail(st.tokens)
        o == st.out
    IN  IF tok[1] = "~"
        THEN [out |-> write_text(o, Tail(tok), FALSE), tokens |-> rest, token |-> tok]
        ELSE IF HasKey(SIMPLE_TOKENS, tok)
        THEN [out |-> write_html(o, Get(SIMPLE_TOKENS, tok)), tokens |-> rest, token |-> tok]
        ELSE IF HasKey(TOGGLE_TOKENS, tok)
        THEN LET t == Get(TOGGLE_TOKENS, tok) IN
             [out |-> IF o.stack # <<>> /\ Last(o.stack) = t THEN end_tag(o, t)
                      ELSE start_tag(o, t, NoAttributes, FALSE),
              tokens |-> rest, token |-> tok]
        ELSE IF HasKey(BRACKET_TOKENS, tok)
        THEN LET entry == Get(BRACKET_TOKENS, tok)
                 r == collect(rest, tok, <<>>, {entry[1]})
             IN  [out |-> writer(entry[2], o, Join(r.source)),
                  tokens |-> r.tokens, token |-> r.token]
        ELSE IF tok = LinkOpen
        THEN LET r == collect(rest, tok, <<>>, {Pipe, LinkClose})
                 href == Join(r.source)
                 o1 == start_tag(o, <<"a">>, [href |-> href], FALSE)
             IN  [out |-> IF r.token # Pipe
                          THEN end_tag(write_text(o1, href, FALSE), <<"a">>)
                          ELSE o1,
                  tokens |-> r.tokens, token |-> r.token]
        ELSE IF tok = LinkClose
        THEN [out |-> link_close(o, tok), tokens |-> rest, token |-> tok]
        ELSE [out |-> write_text(o, tok, TRUE), tokens |-> rest, token |-> tok]

\* one pass of the outer "while tokens" loop of Text.html
text_token(st) ==
    LET tok == Head(st.tokens)
        rest == Tail(st.tokens)
        o == st.out
    IN  IF tok[1] = "~"
        THEN [out |-> write_text(o, Tail(tok), FALSE), tokens |-> rest, token |-> tok]
        ELSE IF HasKey(SIMPLE_TOKENS, tok)
        THEN [out |-> write_html(o, Get(SIMPLE_TOKENS, tok)), tokens |-> rest, token |-> tok]
        ELSE IF HasKey(TOGGLE_TOKENS, tok)
        THEN LET t == Get(TOGGLE_TOKENS, tok) IN
             [out |-> IF In(t, o.stack) THEN end_tag(o, t)
                      ELSE start_tag(o, t, NoAttributes, FALSE),
              tokens |-> rest, token |-> tok]
        ELSE IF HasKey(BRACKET_TOKENS, tok)
        THEN LET entry == Get(BRACKET_TOKENS, tok)
                 r == collect(rest, tok, <<>>, {entry[1]})
             IN  [out |-> writer(entry[2], o, Join(r.source)),
                  tokens |-> r.tokens, token |-> r.token]
        ELSE IF tok = LinkOpen
        THEN LET r == collect(rest, tok, <<>>, {Pipe, LinkClose})
                 href == Join(r.source)
                 o1 == start_tag(o, <<"a">>, [href |-> href], FALSE)
             IN  [out |-> IF r.token # Pipe
                          THEN end_tag(write_text(o1, href, FALSE), <<"a">>)
                          ELSE o1,
                  tokens |-> r.tokens, token |-> r.token]
        ELSE IF tok = LinkClose
        THEN [out |-> link_close(o, tok), tokens |-> rest, token |-> tok]
        ELSE [out |-> write_text(o, tok, TRUE), tokens |-> rest, token |-> tok]

\* Text.html from a state of its loop on: the writer it ends with
RECURSIVE text_html_loop(_)
text_html_loop(st) ==
    IF st.out.exc # NoExc THEN st.out
    ELSE IF st.tokens = <<>> THEN close(st.out)
    ELSE text_html_loop(text_token(st))

\* Text(source).html as the writer it ends with
Text_html(src) ==
    text_html_loop([out |-> HTML("auto_link"), tokens |-> Text(src), token |-> None])

-----------------------------------------------------------------------------
(* class TableRow                                                          *)

bracket_tokens ==
    {<<Code_INLINE_DELIMITER, Code_INLINE_DELIMITER>>,
     <<LinkOpen, LinkClose>>,
     <<ImageOpen, ImageClose>>,
     <<Preformatted_BLOCK_START, Preformatted_BLOCK_END>>}

RowPartitioner ==
    Partitioner(Escape,
        <<Pipe, Code_INLINE_DELIMITER, LinkOpen, LinkClose, ImageOpen, ImageClose,
          Preformatted_BLOCK_START, Preformatted_BLOCK_END>>)

\* row_tokens without the drop of the trailing "|"
row_tokens_keep_pipe(src) == partition(RowPartitioner, rstrip(src))

\* row_tokens without the removal of trailing whitespace
row_tokens_no_rstrip(src) ==
    IF EndsWith(src, Pipe) THEN partition(RowPartitioner, Front(src))
    ELSE partition(RowPartitioner, src)

\* the tokens TableRow.__init__ hands to its loop
row_tokens(src) ==
    LET stripped == rstrip(src)
    IN  IF EndsWith(stripped, Pipe) THEN partition(RowPartitioner, Front(stripped))
        ELSE partition(RowPartitioner, stripped)

\* self.cells[-1].append(token)
append_to_last(cs, tok) == [cs EXCEPT ![Len(cs)] = Append(cs[Len(cs)], tok)]

\* absorb that also stops, without taking it, at a "|"
RECURSIVE absorb_until_pipe(_, _, _, _)
absorb_until_pipe(cs, toks, tok, end) ==
    IF toks = <<>> \/ Head(toks) = Pipe
    THEN [cells |-> cs, tokens |-> toks, token |-> tok, exc |-> NoExc]
    ELSE LET t == Head(toks)
             cs1 == append_to_last(cs, t)
         IN  IF t = end
             THEN [cells |-> cs1, tokens |-> Tail(toks), token |-> t, exc |-> NoExc]
             ELSE absorb_until_pipe(cs1, Tail(toks), t, end)

\* the inner "while tokens" loop of TableRow.__init__
RECURSIVE absorb(_, _, _, _)
absorb(cs, toks, tok, end) ==
    IF toks = <<>> THEN [cells |-> cs, tokens |-> toks, token |-> tok, exc |-> NoExc]
    ELSE LET t == Head(toks)
             cs1 == append_to_last(cs, t)
         IN  IF t = end
             THEN [cells |-> cs1, tokens |-> Tail(toks), token |-> t, exc |-> NoExc]
             ELSE absorb(cs1, Tail(toks), t, end)

\* one pass of the outer "while tokens" loop of TableRow.__init__
row_token(st) ==
    LET tok == Head(st.tokens)
        rest == Tail(st.tokens)
    IN  IF tok = Pipe
        THEN [cells |-> Append(st.cells, <<>>), tokens |-> rest, token |-> tok, exc |-> NoExc]
        ELSE IF st.cells = <<>>
        THEN [cells |-> st.cells, tokens |-> rest, token |-> tok, exc |-> NoCell]
        ELSE IF HasKey(bracket_tokens, tok)
        THEN absorb(append_to_last(st.cells, tok), rest, tok, Get(bracket_tokens, tok))
        ELSE [cells |-> append_to_last(st.cells, tok), tokens |-> rest, token |-> tok,
              exc |-> NoExc]

RECURSIVE row_loop(_)
row_loop(st) ==
    IF st.exc # NoExc \/ st.tokens = <<>> THEN st ELSE row_loop(row_token(st))

\* ["".join(cell) for cell in self.cells]
join_cells(cs) == [i \in 1..Len(cs) |-> Join(cs[i])]

\* TableRow(source): its cells, or the exception it raises
TableRow(src) ==
    IF ~StartsWith(src, Pipe) THEN [cells |-> <<>>, exc |-> NotARow]
    ELSE LET st == row_loop([cells |-> <<>>, tokens |-> row_tokens(src),
                             token |-> None, exc |-> NoExc])
         IN  [cells |-> IF st.exc = NoExc THEN join_cells(st.cells) ELSE <<>>,
              exc |-> st.exc]

TextAlign(align) == <<"t", "e", "x", "t", "-", "a", "l", "i", "g", "n", ":">> \o align

\* out.element(tag, attributes, html=Text(content).html)
cell_element(o, t, attributes, inner) ==
    IF o.exc # NoExc THEN o
    ELSE IF inner.exc # NoExc THEN raise(o, inner.exc)
    ELSE element(o, t, attributes, html(inner), None, None)

\* the body of the loop over self.cells in TableRow.html
row_cell(o, cell) ==
    LET stripped_cell == strip(cell)
        header == StartsWith(stripped_cell, <<"=">>)
        code == ~header /\ StartsWith(stripped_cell, <<Grave>>)
                        /\ EndsWith(stripped_cell, <<Grave>>)
        t == IF header THEN <<"t", "h">> ELSE <<"t", "d">>
        content == IF header THEN Tail(cell) ELSE cell
        left_padded == content # <<>> /\ Head(content) \in Whitespace
        right_padded == content # <<>> /\ Last(content) \in Whitespace
        align == IF left_padded /\ right_padded THEN <<"c", "e", "n", "t", "e", "r">>
                 ELSE IF right_padded THEN <<"l", "e", "f", "t">>
                 ELSE IF left_padded THEN <<"r", "i", "g", "h", "t">>
                 ELSE None
        content1 == IF align # None THEN strip(content) ELSE content
        keys == (IF code THEN {"class"} ELSE {}) \cup (IF align # None THEN {"style"} ELSE {})
        attributes == [k \in keys |-> IF k = "class" THEN <<"c", "o", "d", "e">>
                                      ELSE TextAlign(align)]
    IN  cell_element(o, t, attributes, Text_html(content1))

RECURSIVE row_cells(_, _, _)
row_cells(o, cs, i) ==
    IF i > Len(cs) THEN o ELSE row_cells(row_cell(o, cs[i]), cs, i + 1)

\* TableRow.html as the writer it ends with
TableRow_html(cs) ==
    end_tag(row_cells(start_tag(HTML("entities"), <<"t", "r">>, NoAttributes, FALSE), cs, 1),
            <<"t", "r">>)

-----------------------------------------------------------------------------
(* class Heading, HorizontalRule, ListItem, Preformatted, Code, Quote,     *)
(* Block and Document.  A line object is a record whose type field names   *)
(* its class; a line of a paragraph is a str.                              *)

\* content_type None of a Block
Untyped == "NoneType"

\* s.lstrip(chars) and s.rstrip(chars) for the one character ch
RECURSIVE lstrip_char(_, _)
lstrip_char(s, ch) == IF s # <<>> /\ Head(s) = ch THEN lstrip_char(Tail(s), ch) ELSE s

RECURSIVE rstrip_char(_, _)
rstrip_char(s, ch) == IF s # <<>> /\ Last(s) = ch THEN rstrip_char(Front(s), ch) ELSE s

\* source.splitlines(True) on texts whose only line boundary is "\n"
RECURSIVE splitlines(_, _)
splitlines(text, line) ==
    IF text = <<>> THEN (IF line = <<>> THEN <<>> ELSE <<line>>)
    ELSE IF Head(text) = "\n" THEN <<Append(line, "\n")>> \o splitlines(Tail(text), <<>>)
    ELSE splitlines(Tail(text), Append(line, Head(text)))

Heading_check(src) == StartsWith(src, <<"=">>)

\* Heading(source): the level is the number of leading "=", at most 6
Heading(src) ==
    [type |-> "Heading",
     level |-> Min(Len(src) - Len(lstrip_char(src, "=")), 6),
     text |-> rstrip(rstrip_char(strip(lstrip_char(src, "=")), "="))]

HorizontalRule_check(src) == StartsWith(src, <<"-", "-", "-", "-">>)

HorizontalRule(src) == [type |-> "HorizontalRule"]

ListItem_check(src, content_type) ==
    IF content_type = "ListItem" \/ ~StartsWith(src, <<"*", "*">>)
    THEN src # <<>> /\ src[1] \in {"#", "*"}
    ELSE FALSE

\* the leading run of "#" and "*" of a list line
RECURSIVE signature_of(_)
signature_of(chars) ==
    IF chars # <<>> /\ Head(chars) \in {"#", "*"}
    THEN <<Head(chars)>> \o signature_of(Tail(chars))
    ELSE <<>>

ListItem(src) ==
    [type |-> "ListItem",
     signature |-> signature_of(src),
     level |-> Len(signature_of(src)),
     item |-> Text(strip(SubSeq(src, Len(signature_of(src)) + 1, Len(src))))]

\* ListItem.compatible
compatible(self, other) ==
    SubSeq(self.signature, 1, Min(Len(self.signature), Len(other.signature)))
        = SubSeq(other.signature, 1, Min(Len(self.signature), Len(other.signature)))

Preformatted(src) == [type |-> "Preformatted", text |-> src]

Code(src) == [type |-> "Code", line |-> src]

Quote(src) == [type |-> "Quote", text |-> Text(src)]

Row(src) == [type |-> "TableRow", cells |-> TableRow(src).cells]

Paragraph(src) == [type |-> "str", line |-> src]

TypeMismatch == "ValueError: Cannot add line to block"

\* Block(content_type, metadata) with no lines
Block(content_type, metadata) ==
    [content_type |-> content_type, metadata |-> metadata, lines |-> <<>>, exc |-> NoExc]

\* Block.append without its test of the type of the line
Block_append_unchecked(block, line) == [block EXCEPT !.lines = Append(@, line)]

\* Block.append
Block_append(block, line) ==
    IF block.content_type = Untyped \/ line.type = block.content_type
    THEN [block EXCEPT !.lines = Append(@, line)]
    ELSE [block EXCEPT !.exc = TypeMismatch]

\* block.lines.append(line)
lines_append(block, line) == [block EXCEPT !.lines = Append(@, line)]

\* Document.append keeping every block
Document_append_always(blocks, block) == Append(blocks, block)

\* Document.append: a block without lines is not kept
Document_append(blocks, block) == IF block.lines # <<>> THEN Append(blocks, block) ELSE blocks

\* Document.__init__ before its loop
Document(src) ==
    [lines |-> splitlines(src, <<>>), blocks |-> <<>>, title |-> None, title_level |-> 7,
     block |-> Block(Untyped, None)]

\* self.append(block); block = next
close_block(d, next) ==
    [d EXCEPT !.blocks = Document_append(@, d.block), !.block = next]

\* block.lines.append(line) on the current block
add_line(d, line) == [d EXCEPT !.block = lines_append(@, line)]

\* self.blocks.append(Block(content_type, lines=[line]))
add_block(d, content_type, line) ==
    [d EXCEPT !.blocks = Append(@, Block_append(Block(content_type, None), line))]

\* the update of the title by a heading
set_title(d, heading) ==
    IF ~Truthy(d.title) \/ heading.level < d.title_level
    THEN [d EXCEPT !.title = heading.text, !.title_level = heading.level]
    ELSE d

\* fenced_line that lets the end fence of any fenced block close the block
fenced_line_any_end(d, line, end, object) ==
    IF StartsWith(line, end) \/ StartsWith(line, Preformatted_BLOCK_END)
       \/ StartsWith(line, Code_BLOCK_DELIMITER)
    THEN close_block(d, Block(Untyped, None))
    ELSE add_line(d, object)

\* the pass of the loop of Document.__init__ on a line inside a fenced block
fenced_line(d, line, end, object) ==
    IF StartsWith(line, end) THEN close_block(d, Block(Untyped, None))
    ELSE add_line(d, object)

\* the branch of a list line: a run is continued when the block has lines,
\* is a list and its first item is compatible with the new one
list_line(d, item) ==
    IF d.block.lines # <<>> /\ d.block.content_type = "ListItem"
       /\ compatible(d.block.lines[1], item)
    THEN add_line(d, item)
    ELSE add_line(close_block(d, Block("ListItem", None)), item)

\* the branch of a table line
table_line(d, row) ==
    IF d.block.content_type # "TableRow"
    THEN add_line(close_block(d, Block("TableRow", None)), row)
    ELSE add_line(d, row)

\* the last branch, on a block that is untyped: a line of text is added, an
\* empty line ends the paragraph
text_line(d, line) ==
    IF line # <<>> THEN add_line(d, Paragraph(line))
    ELSE IF d.block.lines # <<>>
    THEN [d EXCEPT !.blocks = Append(@, d.block), !.block = Block(Untyped, None)]
    ELSE d

\* the pass of the loop on a line outside fenced blocks, already rstripped
open_line(d, line) ==
    IF Heading_check(line)
    THEN set_title(add_block(close_block(d, Block(Untyped, None)), "Heading", Heading(line)),
                   Heading(line))
    ELSE IF HorizontalRule_check(line)
    THEN add_block(close_block(d, Block(Untyped, None)), "HorizontalRule", HorizontalRule(line))
    ELSE IF ListItem_check(lstrip(line), d.block.content_type)
    THEN list_line(d, ListItem(lstrip(line)))
    ELSE IF StartsWith(line, Preformatted_BLOCK_START)
    THEN close_block(d, Block("Preformatted", strip(lstrip_char(line, "{"))))
    ELSE IF StartsWith(line, Code_BLOCK_DELIMITER)
    THEN close_block(d, Block("Code", strip(lstrip_char(line, Grave))))
    ELSE IF StartsWith(line, Quote_BLOCK_DELIMITER)
    THEN close_block(d, Block("Quote", strip(lstrip_char(line, "\""))))
    ELSE IF StartsWith(line, Pipe)
    THEN table_line(d, Row(line))
    ELSE IF d.block.content_type # Untyped
    THEN text_line(close_block(d, Block(Untyped, None)), line)
    ELSE text_line(d, line)

\* one pass of the loop of Document.__init__
document_line(d, line) ==
    IF d.block.content_type = "Preformatted"
    THEN fenced_line(d, line, Preformatted_BLOCK_END, Preformatted(line))
    ELSE IF d.block.content_type = "Code"
    THEN fenced_line(d, line, Code_BLOCK_DELIMITER, Code(line))
    ELSE IF d.block.content_type = "Quote"
    THEN fenced_line(d, line, Quote_BLOCK_DELIMITER, Quote(line))
    ELSE open_line(d, rstrip(line))

\* the end of Document.__init__: the block still open is appended
document_end(d) == [d EXCEPT !.blocks = Document_append(@, d.block)]

\* Document(source) once its loop has run
RECURSIVE document_loop(_)
document_loop(d) ==
    IF d.lines = <<>> THEN document_end(d)
    ELSE document_loop(document_line([d EXCEPT !.lines = Tail(@)], Head(d.lines)))

-----------------------------------------------------------------------------
(* The html of the line objects and Document.html.  The html of a line is  *)
(* the writer it ends with; the highlighting collaborator is outside the   *)
(* program: the lexer it finds is an input of the rendering of a block.    *)

\* "h%d" % self.level
Heading_tag(level) == <<"h", <<"0", "1", "2", "3", "4", "5", "6">>[level + 1]>>

Heading_html(self) ==
    end_tag(element(write_text(start_tag(HTML("entities"), Heading_tag(self.level),
                                         NoAttributes, FALSE),
                               self.text, FALSE),
                    <<"a">>, [href |-> <<"#">>], None, None, <<"&", "s", "e", "c", "t", ";">>),
            Heading_tag(self.level))

HorizontalRule_html(self) == tag(HTML("entities"), <<"h", "r">>, NoAttributes)

\* self.signature[level] of ListItem.ordered, and ListItem.list_tag
list_tag(self, level) ==
    IF self.signature[level + 1] = "#" THEN <<"o", "l">> ELSE <<"u", "l">>

\* the html of the tokens of a Text
tokens_html(toks) == text_html_loop([out |-> HTML("auto_link"), tokens |-> toks, token |-> None])

ListItem_html(self) == cell_element(HTML("entities"), <<"l", "i">>, NoAttributes, tokens_html(self.item))

Preformatted_html(self) == write_text(HTML("entities"), self.text, FALSE)

Quote_html(self) == tokens_html(self.text)

\* line.html for a line object of a block that is written line by line
line_html(line) ==
    CASE line.type = "Heading" -> Heading_html(line)
      [] line.type = "HorizontalRule" -> HorizontalRule_html(line)
      [] line.type = "Preformatted" -> Preformatted_html(line)
      [] line.type = "Quote" -> Quote_html(line)
      [] line.type = "TableRow" -> TableRow_html(line.cells)

\* out.write_html(line.html); an exception of line.html leaves through it
write_line(o, inner) ==
    IF o.exc # NoExc THEN o
    ELSE IF inner.exc # NoExc THEN raise(o, inner.exc)
    ELSE write_html(o, html(inner))

\* for line in block.lines: out.write_html(line.html)
RECURSIVE write_lines(_, _, _)
write_lines(o, lines, i) ==
    IF i > Len(lines) THEN o
    ELSE write_lines(write_line(o, line_html(lines[i])), lines, i + 1)

\* " ".join(block.lines) of a block of text
RECURSIVE join_lines(_, _)
join_lines(lines, i) ==
    IF i > Len(lines) THEN <<>>
    ELSE (IF i > 1 THEN <<" ">> ELSE <<>>) \o lines[i].line \o join_lines(lines, i + 1)

\* out.element("p", html=...) given the text of the paragraph as html= or,
\* escaping it again, as text=
paragraph_html_as_text(o, block) ==
    IF tokens_html(Text(join_lines(block.lines, 1))).exc # NoExc
    THEN raise(o, tokens_html(Text(join_lines(block.lines, 1))).exc)
    ELSE element(o, <<"p">>, NoAttributes, None,
                 html(tokens_html(Text(join_lines(block.lines, 1)))), None)

\* out.element("p", html=Text(" ".join(block.lines)).html)
paragraph_html(o, block) ==
    cell_element(o, <<"p">>, NoAttributes, tokens_html(Text(join_lines(block.lines, 1))))

\* block.metadata.split()[0]
RECURSIVE first_word(_)
first_word(s) ==
    IF s = <<>> \/ Head(s) \in Whitespace THEN <<>> ELSE <<Head(s)>> \o first_word(Tail(s))

\* The Heading and HorizontalRule branch, the Preformatted branch, the Quote
\* branch and the TableRow branch write the html of every line of the block,
\* the last three between a start tag and its end tag.
enclosing_tag(block) ==
    CASE block.content_type = "Preformatted" -> <<"p", "r", "e">>
      [] block.content_type = "Quote" -> <<"b", "l", "o", "c", "k", "q", "u", "o", "t", "e">>
      [] block.content_type = "TableRow" -> <<"t", "a", "b", "l", "e">>
      [] OTHER -> None

\* {"class": cls} of a Preformatted block with metadata
enclosing_attributes(block) ==
    IF block.content_type = "Preformatted" /\ Truthy(block.metadata)
    THEN [class |-> first_word(block.metadata)]
    ELSE NoAttributes

lines_start(o, block) ==
    IF enclosing_tag(block) = None THEN o
    ELSE start_tag(o, enclosing_tag(block), enclosing_attributes(block), FALSE)

lines_end(o, block) ==
    IF enclosing_tag(block) = None THEN o ELSE end_tag(o, enclosing_tag(block))

lines_html(o, block) == lines_end(write_lines(lines_start(o, block), block.lines, 1), block)

\* "".join(line.line for line in block.lines)
RECURSIVE code_source(_, _)
code_source(lines, i) ==
    IF i > Len(lines) THEN <<>> ELSE lines[i].line \o code_source(lines, i + 1)

\* lang of lang, _, metadata = block.metadata.partition(" ")
lang_of(block) == str_partition(block.metadata, " ")[1]

\* the outcomes of the search for a lexer: get_lexer_by_name found one, or
\* found none and guess_lexer found one, or both found none
ByName == "get_lexer_by_name"
Guessed == "guess_lexer"
NoLexer == "ClassNotFound"

\* highlight(source, JavascriptLexer(), HtmlFormatter()): the wrapper of the
\* formatter around the escaped source, without the spans of the lexer
HighlightStart ==
    <<"<", "d", "i", "v", " ", "c", "l", "a", "s", "s", "=", "\"", "h", "i", "g", "h",
      "l", "i", "g", "h", "t", "\"", ">", "<", "p", "r", "e", ">">>

HighlightEnd == <<"<", "/", "p", "r", "e", ">", "<", "/", "d", "i", "v", ">", "\n">>

highlight(src) == HighlightStart \o entities(src) \o HighlightEnd

\* the Code branch, the fallback writing the source as text or raw
code_html_raw_fallback(o, block, lexer) ==
    IF lexer = NoLexer
    THEN end_tag(write_raw(start_tag(o, <<"p", "r", "e">>, NoAttributes, FALSE),
                           code_source(block.lines, 1)),
                 <<"p", "r", "e">>)
    ELSE write_raw(o, highlight(code_source(block.lines, 1)))

\* the Code branch
code_html(o, block, lexer) ==
    IF lexer = NoLexer
    THEN end_tag(write_text(start_tag(o, <<"p", "r", "e">>, NoAttributes, FALSE),
                            code_source(block.lines, 1), FALSE),
                 <<"p", "r", "e">>)
    ELSE write_raw(o, highlight(code_source(block.lines, 1)))

\* list_item_html without the loop that closes the levels above the item
RECURSIVE list_item_html_no_close(_, _, _)
list_item_html_no_close(o, level, line) ==
    IF level < line.level
    THEN list_item_html_no_close(start_tag(o, list_tag(line, level), NoAttributes, FALSE),
                                 level + 1, line)
    ELSE write_line(o, ListItem_html(line))

\* the two while loops on level and the write of one list item
RECURSIVE list_item_html(_, _, _)
list_item_html(o, level, line) ==
    IF level > line.level THEN list_item_html(end_tag(o, None), level - 1, line)
    ELSE IF level < line.level
    THEN list_item_html(start_tag(o, list_tag(line, level), NoAttributes, FALSE), level + 1, line)
    ELSE write_line(o, ListItem_html(line))

\* while level: out.end_tag()
RECURSIVE list_end(_, _)
list_end(o, level) == IF level = 0 THEN o ELSE list_end(end_tag(o, None), level - 1)

\* the ListItem branch from line i on
RECURSIVE list_html(_, _, _, _)
list_html(o, lines, i, level) ==
    IF i > Len(lines) THEN list_end(o, level)
    ELSE list_html(list_item_html(o, level, lines[i]), lines, i + 1, lines[i].level)

\* one pass of the loop of Document.html
block_html(o, block, lexer) ==
    CASE block.content_type = Untyped -> paragraph_html(o, block)
      [] block.content_type = "Code" -> code_html(o, block, lexer)
      [] block.content_type = "ListItem" -> list_html(o, block.lines, 1, 0)
      [] OTHER -> lines_html(o, block)

-----------------------------------------------------------------------------
(* The writer driven by a caller: any sequence of at most MaxCalls calls   *)
(* of its methods.  pre is the writer as the call found it, call the       *)
(* method and its arguments, raised the exception the call ended with.     *)

Tag_a == <<"a">>
Tag_em == <<"e", "m">>
Tag_br == <<"b", "r">>
Tag_img == <<"i", "m", "g">>
Tag_code == <<"c", "o", "d", "e">>

WriterTexts == {<<"&">>, <<"w", "w", "w", ".", "a", "b">>}

WriterTags == {Tag_em, Tag_a}

WriterAttributes == {NoAttributes, [src |-> <<"&">>, alt |-> None]}

\* the html, text and raw of an element: none, each alone, and two at once
WriterContents ==
    {<<None, None, None>>, <<<<"x">>, None, None>>, <<None, <<"&">>, None>>,
     <<None, None, <<"<">>>>, <<<<"x">>, <<"&">>, None>>}

WriterInit ==
    /\ out \in {HTML("entities"), HTML("auto_link")}
    /\ pre = out
    /\ call = [op |-> "init"]
    /\ raised = NoExc
    /\ calls = 0
    /\ source = <<>>
    /\ tokens = <<>>
    /\ token = None
    /\ cells = <<>>
    /\ doc = NoDocument
    /\ pc = "writer"

\* the caller: the call's result becomes the writer, its exception is caught
Called(c, result) ==
    /\ pc = "writer"
    /\ calls < MaxCalls
    /\ calls' = calls + 1
    /\ pre' = out
    /\ call' = c
    /\ out' = [result EXCEPT !.exc = NoExc]
    /\ raised' = result.exc
    /\ UNCHANGED <<source, tokens, token, cells, doc, pc>>

WriteText(text, post_process) ==
    Called([op |-> "write_text", text |-> text, post_process |-> post_process],
           write_text(out, text, post_process))

WriteHtml(h) == Called([op |-> "write_html", html |-> h], write_html(out, h))

WriteRaw(text) == Called([op |-> "write_raw", text |-> text], write_raw(out, text))

Tag(t, attributes) ==
    Called([op |-> "tag", tag |-> t, attributes |-> attributes], tag(out, t, attributes))

StartTag(t, attributes, void) ==
    Called([op |-> "start_tag", tag |-> t, attributes |-> attributes, void |-> void],
           start_tag(out, t, attributes, void))

EndTag(t) == Called([op |-> "end_tag", tag |-> t], end_tag(out, t))

Element(t, h, text, raw) ==
    Called([op |-> "element", tag |-> t, html |-> h, text |-> text, raw |-> raw],
           element(out, t, NoAttributes, h, text, raw))

Close == Called([op |-> "close"], close(out))

WriterNext ==
    \/ \E text \in WriterTexts, post_process \in BOOLEAN : WriteText(text, post_process)
    \/ WriteHtml(<<"<", "b", "r", ">">>)
    \/ WriteRaw(<<"&">>)
    \/ \E attributes \in WriterAttributes : Tag(Tag_img, attributes)
    \/ \E t \in WriterTags :
          StartTag(t, IF t = Tag_a THEN [href |-> <<"&">>] ELSE NoAttributes, FALSE)
    \/ StartTag(Tag_br, NoAttributes, TRUE)
    \/ \E t \in WriterTags \cup {None} : EndTag(t)
    \/ \E content \in WriterContents : Element(Tag_code, content[1], content[2], content[3])
    \/ Close

WriterSpec == WriterInit /\ [][WriterNext]_vars

\* the closing tags of the entries of a stack, innermost first
ClosingTags(stk) == [i \in 1..Len(stk) |-> <<"<", "/">> \o stk[Len(stk) + 1 - i] \o <<">">>]

\* the fragments a writer holds once its pending buffer has been emitted
Flushed(o) ==
    IF o.token_buffer = <<>> THEN o.tokens
    ELSE Append(o.tokens, IF o.processor = "auto_link" THEN auto_link(Join(o.token_buffer))
                          ELSE entities(Join(o.token_buffer)))

\* C1: after any sequence of writer calls, close() leaves the pending buffer
\* and the open-tag stack empty and emits, after the flushed buffer, one
\* closing tag per tag that was open, innermost first.
C1_CloseBalances ==
    call.op = "close" =>
        /\ raised = NoExc
        /\ out.token_buffer = <<>>
        /\ out.stack = <<>>
        /\ out.tokens = Flushed(pre) \o ClosingTags(pre.stack)

C1_Witness ==
    /\ call.op = "close"
    /\ Len(pre.stack) >= 2
    /\ pre.stack[1] # pre.stack[2]
    /\ pre.token_buffer # <<>>
    /\ out.stack = <<>>

\* the index of the topmost occurrence of name on a stack
Topmost(stk, name) ==
    CHOOSE k \in 1..Len(stk) : stk[k] = name /\ \A j \in (k + 1)..Len(stk) : stk[j] # name

\* C2: end_tag(name) with name on the stack closes the tags from the top
\* down to and including the topmost occurrence of name and leaves the
\* entries below it unchanged; end_tag() closes exactly the innermost tag.
C2_EndTagClosesDownToName ==
    (call.op = "end_tag" /\ pre.stack # <<>> /\ (call.tag = None \/ In(call.tag, pre.stack))) =>
        LET name == IF call.tag = None THEN Last(pre.stack) ELSE call.tag
            k == Topmost(pre.stack, name)
        IN  /\ raised = NoExc
            /\ out.stack = SubSeq(pre.stack, 1, k - 1)
            /\ out.tokens = Flushed(pre) \o ClosingTags(SubSeq(pre.stack, k, Len(pre.stack)))
            /\ call.tag = None => Len(out.stack) = Len(pre.stack) - 1

C2_Witness ==
    /\ call.op = "end_tag"
    /\ call.tag # None
    /\ Len(pre.stack) = 3
    /\ pre.stack[1] = call.tag
    /\ pre.stack[2] = call.tag
    /\ pre.stack[3] # call.tag
    /\ out.stack = <<call.tag>>

\* C3: end_tag on an empty stack fails with NoOpenTag, end_tag(name) with
\* name absent from a non-empty stack fails with UnmatchedTag, and either
\* way the stack, the emitted fragments and the pending buffer are as before.
C3_FailedEndTagChangesNothing ==
    (call.op = "end_tag" /\ (pre.stack = <<>> \/ (call.tag # None /\ ~In(call.tag, pre.stack)))) =>
        /\ raised = IF pre.stack = <<>> THEN NoOpenTag ELSE UnmatchedTag
        /\ out.stack = pre.stack
        /\ out.tokens = pre.tokens
        /\ out.token_buffer = pre.token_buffer

C3_Witness ==
    /\ call.op = "end_tag"
    /\ raised = UnmatchedTag
    /\ pre.stack # <<>>
    /\ pre.token_buffer # <<>>
    /\ out = pre

-----------------------------------------------------------------------------
(* The inline renderer run on one span: Text(source), then Text.html one   *)
(* token of its outer loop at a time, then its close().                    *)

\* every concatenation of at most n pieces
RECURSIVE Concats(_, _)
Concats(pieces, n) ==
    IF n = 0 THEN {<<>>}
    ELSE LET shorter == Concats(pieces, n - 1)
         IN  shorter \cup {s \o p : s \in shorter, p \in pieces}

TextMarkers == {TextPartitioner.markers[i] : i \in 1..Len(TextPartitioner.markers)}

CorePieces ==
    {Escape, Pipe, LinkOpen, LinkClose, ImageOpen, ImageClose, Strong, Em,
     LineBreak, <<"a">>}

TextInputs ==
    Concats(CorePieces, MaxPieces) \cup Concats(TextMarkers \cup {<<"a">>, <<" ">>}, MaxPieces - 2)

TextInit ==
    /\ source \in TextInputs
    /\ tokens = Text(source)
    /\ token = None
    /\ out = HTML("auto_link")
    /\ pre = out
    /\ call = [op |-> "init"]
    /\ raised = NoExc
    /\ calls = 0
    /\ cells = <<>>
    /\ doc = NoDocument
    /\ pc = "text"

TextToken ==
    /\ pc = "text"
    /\ tokens # <<>>
    /\ \E st \in {text_token([out |-> out, tokens |-> tokens, token |-> token])} :
           /\ out' = st.out
           /\ tokens' = st.tokens
           /\ token' = st.token
           /\ raised' = st.out.exc
           /\ pc' = IF st.out.exc # NoExc THEN "raised" ELSE "text"
    /\ pre' = out
    /\ call' = [op |-> "text_token", token |-> Head(tokens)]
    /\ UNCHANGED <<calls, source, cells, doc>>

TextClose ==
    /\ pc = "text"
    /\ tokens = <<>>
    /\ out' = close(out)
    /\ pre' = out
    /\ call' = [op |-> "close"]
    /\ pc' = "done"
    /\ UNCHANGED <<raised, calls, source, tokens, token, cells, doc>>

TextNext == TextToken \/ TextClose

TextSpec == TextInit /\ [][TextNext]_vars

Count(x, s) == Cardinality({i \in 1..Len(s) : s[i] = x})

\* a fragment that is one tag: "<", a name, attributes with escaped values, ">"
IsTag(f) == Len(f) >= 3 /\ f[1] = "<" /\ Last(f) = ">" /\ Count("<", f) = 1 /\ Count(">", f) = 1

IsEndTag(f) == IsTag(f) /\ f[2] = "/"

\* the name of a tag fragment
TagName(f) ==
    LET from == IF f[2] = "/" THEN 3 ELSE 2
        stops == {i \in from..Len(f) : f[i] \in {" ", ">"}}
        to == CHOOSE i \in stops : \A j \in stops : i <= j
    IN  SubSeq(f, from, to - 1)

VoidTags == {Tag_br, Tag_img}

\* the tag fragments nest properly when read against a stack of open names
RECURSIVE Nested(_, _, _)
Nested(frags, i, open) ==
    IF i > Len(frags) THEN open = <<>>
    ELSE LET f == frags[i] IN
         IF ~IsTag(f) \/ TagName(f) \in VoidTags THEN Nested(frags, i + 1, open)
         ELSE IF IsEndTag(f)
         THEN open # <<>> /\ Last(open) = TagName(f) /\ Nested(frags, i + 1, Front(open))
         ELSE Nested(frags, i + 1, Append(open, TagName(f)))

\* C4: rendering one span raises nothing, ends with an empty open-tag stack
\* and emits start and end tags that are properly nested and balanced.
C4_SpanRendersBalanced ==
    /\ pc # "raised"
    /\ raised = NoExc
    /\ pc = "done" => (out.stack = <<>> /\ out.token_buffer = <<>> /\ Nested(out.tokens, 1, <<>>))

C4_Witness ==
    /\ pc = "done"
    /\ Len(pre.stack) >= 2
    /\ In(LinkClose, Text(source))
    /\ Cardinality({i \in 1..Len(out.tokens) : IsEndTag(out.tokens[i])}) >= 3

\* C5: a "]]" met while no anchor is open is written as the text "]]",
\* raises nothing and leaves the open-tag stack as it was.
C5_StrayLinkCloseIsText ==
    (call.op = "text_token" /\ call.token = LinkClose /\ ~In(Tag_a, pre.stack)) =>
        /\ raised = NoExc
        /\ pc = "text"
        /\ out.stack = pre.stack
        /\ out.token_buffer = <<>>
        /\ out.tokens = Flushed(pre) \o <<<<"]">>, <<"]">>>>

C5_Witness ==
    /\ call.op = "text_token"
    /\ call.token = LinkClose
    /\ pre.stack # <<>>
    /\ ~In(Tag_a, pre.stack)
    /\ pre.token_buffer # <<>>
    /\ out.stack = pre.stack

\* a character that is no marker character, standing in for an escaped marker
Placeholder == "PLACEHOLDER"

\* the text s with every x replaced by the characters r
RECURSIVE Subst(_, _, _)
Subst(s, x, r) ==
    IF s = <<>> THEN <<>>
    ELSE (IF Head(s) = x THEN r ELSE <<Head(s)>>) \o Subst(Tail(s), x, r)

\* the positions of the tokens that are the escape followed by a marker
EscapedMarkers(toks) == {i \in 1..Len(toks) : toks[i][1] = "~" /\ Tail(toks[i]) \in TextMarkers}

\* C6: "~" followed by a marker m yields the literal characters of m and
\* never m's markup meaning: the span renders as it does with an inert
\* character in the place of "~m", shown as m (entity-escaped, or as it is
\* inside a script element).
C6_EscapedMarkerIsLiteral ==
    (pc = "done" /\ Cardinality(EscapedMarkers(Text(source))) = 1) =>
        LET toks == Text(source)
            i == CHOOSE k \in EscapedMarkers(toks) : TRUE
            m == Tail(toks[i])
            inert == html(text_html_loop([out |-> HTML("auto_link"),
                                          tokens |-> [toks EXCEPT ![i] = <<"~", Placeholder>>],
                                          token |-> None]))
        IN  html(out) \in {Subst(inert, Placeholder, entities(m)), Subst(inert, Placeholder, m)}

-----------------------------------------------------------------------------
(* The table-row splitter run on one row: TableRow.__init__ one token of   *)
(* its outer loop at a time, the join of the cells, then TableRow.html.    *)

RowPieces ==
    {Pipe, Escape, Code_INLINE_DELIMITER, LinkOpen, LinkClose, ImageOpen, ImageClose,
     Preformatted_BLOCK_START, Preformatted_BLOCK_END, <<"a">>, <<" ">>}

CoreRowPieces ==
    {Pipe, Escape, LinkOpen, ImageOpen, ImageClose,
     Preformatted_BLOCK_START, Preformatted_BLOCK_END, <<"a">>}

RowInputs ==
    {Pipe \o s : s \in Concats(CoreRowPieces, MaxRowPieces) \cup Concats(RowPieces, MaxRowPieces - 1)}

RowInit ==
    /\ source \in RowInputs
    /\ tokens = row_tokens(source)
    /\ token = None
    /\ cells = <<>>
    /\ out = HTML("entities")
    /\ pre = out
    /\ call = [op |-> "init"]
    /\ raised = NoExc
    /\ calls = 0
    /\ doc = NoDocument
    /\ pc = "row"

RowToken ==
    /\ pc = "row"
    /\ tokens # <<>>
    /\ \E st \in {row_token([cells |-> cells, tokens |-> tokens, token |-> token,
                               exc |-> NoExc])} :
           /\ cells' = st.cells
           /\ tokens' = st.tokens
           /\ token' = st.token
           /\ raised' = st.exc
           /\ pc' = IF st.exc # NoExc THEN "raised" ELSE "row"
    /\ call' = [op |-> "row_token", token |-> Head(tokens), tokens |-> tokens, cells |-> cells]
    /\ UNCHANGED <<out, pre, calls, source, doc>>

RowJoin ==
    /\ pc = "row"
    /\ tokens = <<>>
    /\ cells' = join_cells(cells)
    /\ call' = [op |-> "join"]
    /\ pc' = "cells"
    /\ UNCHANGED <<out, pre, raised, calls, source, tokens, token, doc>>

RowHtml ==
    /\ pc = "cells"
    /\ \E result \in {TableRow_html(cells)} :
           /\ out' = result
           /\ raised' = result.exc
           /\ pc' = IF result.exc # NoExc THEN "raised" ELSE "done"
    /\ pre' = out
    /\ call' = [op |-> "html"]
    /\ UNCHANGED <<calls, source, tokens, token, cells, doc>>

RowNext == RowToken \/ RowJoin \/ RowHtml

RowSpec == RowInit /\ [][RowNext]_vars

\* the markers of the row lexer in the order TableRow.__init__ lists them,
\* and with the longer of two markers that begin alike first
RowOrder ==
    <<Pipe, Code_INLINE_DELIMITER, LinkOpen, LinkClose, ImageOpen, ImageClose,
      Preformatted_BLOCK_START, Preformatted_BLOCK_END>>

LongestFirst ==
    <<Pipe, Code_INLINE_DELIMITER, LinkOpen, LinkClose,
      Preformatted_BLOCK_START, Preformatted_BLOCK_END, ImageOpen, ImageClose>>

\* a row read character by character from the 0-based position i on, closer
\* being the closing marker awaited (None outside bracketed spans): the
\* number of unescaped "|" outside bracketed spans, and the closer awaited
\* at the end
RECURSIVE Scan(_, _, _, _)
Scan(src, i, closer, markers) ==
    IF i >= Len(src) THEN [pipes |-> 0, closer |-> closer]
    ELSE LET e == IF src[i + 1] = "~" THEN match_marker(<<Escape>> \o markers, src, i + 1, 1) ELSE 0
             k == match_marker(markers, src, i, 1)
         IN  IF e # 0 THEN Scan(src, i + 1 + Len((<<Escape>> \o markers)[e]), closer, markers)
             ELSE IF k = 0 THEN Scan(src, i + 1, closer, markers)
             ELSE LET m == markers[k]
                      next == i + Len(m)
                  IN  IF closer # None
                      THEN Scan(src, next, IF m = closer THEN None ELSE closer, markers)
                      ELSE IF m = Pipe
                      THEN LET r == Scan(src, next, None, markers)
                           IN  [pipes |-> r.pipes + 1, closer |-> r.closer]
                      ELSE IF HasKey(bracket_tokens, m)
                      THEN Scan(src, next, Get(bracket_tokens, m), markers)
                      ELSE Scan(src, next, None, markers)

TopPipes(src, markers) == Scan(src, 0, None, markers).pipes

\* the row without its trailing whitespace and without one trailing "|"
Trimmed(src) == IF EndsWith(rstrip(src), Pipe) THEN Front(rstrip(src)) ELSE rstrip(src)

\* C7 as stated: a row with N unescaped, unbracketed "|" has N + 1 cells.
C7_PipesPlusOneCells ==
    pc \in {"cells", "done"} => Len(cells) = TopPipes(source, RowOrder) + 1

\* C7 amended: once trailing whitespace and one trailing "|" are removed, a
\* row with N unescaped "|" outside bracketed spans has exactly N cells,
\* however many "|" stand inside bracketed spans.
C7_TrimmedPipesCells ==
    pc \in {"cells", "done"} => Len(cells) = TopPipes(Trimmed(source), RowOrder)

C7_Witness ==
    /\ pc = "cells"
    /\ Len(cells) = 2
    /\ Count("~", source) = 0
    /\ Count("|", Join(cells)) >= 1
    /\ Count("|", source) >= 4

\* the row holds no character that begins a bracket-open token
NoBracketOpen(src) == \A i \in 1..Len(src) : src[i] \notin {"[", "{", Grave}

\* the number of "|" that stand right after an escape that is not escaped itself
EscapedPipes(src) == Cardinality({i \in 1..Len(Text(src)) : Text(src)[i] = <<"~", "|">>})

\* the "|" that ends the row is a delimiter: it is not escaped
EndsWithDelimiter(src) ==
    /\ EndsWith(src, Pipe)
    /\ TopPipes(src, RowOrder) = TopPipes(Front(src), RowOrder) + 1

\* C8: an escaped pipe "~|" never delimits cells, wherever it stands in the
\* row: in a row without brackets the cells are those of the unescaped "|"
\* (less the trailing delimiter) and every escaped pipe is rendered as "|".
C8_EscapedPipeNeverDelimits ==
    (pc = "done" /\ NoBracketOpen(source)) =>
        /\ Len(cells) = TopPipes(rstrip(source), RowOrder)
                        - (IF EndsWithDelimiter(rstrip(source)) THEN 1 ELSE 0)
        /\ Count("|", html(out)) = EscapedPipes(source)

\* every bracketed span of the row is closed
AllClosed(src, markers) == Scan(src, 0, None, markers).closer = None

\* the tokens of a row when the longer of two markers that begin alike wins
LongestFirstTokens(src) == partition(Partitioner(Escape, LongestFirst), src)

\* C9: for each bracket pair a "|" between the opening token and its matching
\* closing token starts no new cell; "{{{" is closed by "}}}" only, so a "|"
\* after an inner "}}" stays in the cell.  Stated for the rows whose spans are
\* all closed and hold no image bracket (whose "}}" also begins "}}}"): they
\* have one cell per "|" outside the spans.
C9_PipeInsideBracketStaysInCell ==
    (/\ pc \in {"cells", "done"}
     /\ AllClosed(Trimmed(source), LongestFirst)
     /\ ~In(ImageOpen, LongestFirstTokens(Trimmed(source)))) =>
        Len(cells) = TopPipes(Trimmed(source), LongestFirst)

\* the closing tokens the renderer of a cell misses when its tokens run out,
\* innermost first: that of the bracket or link target it is collecting,
\* then one "]]" for every anchor open
Anchors(stk) == [i \in 1..Cardinality({k \in 1..Len(stk) : stk[k] = Tag_a}) |-> LinkClose]

RECURSIVE Missing(_)
Missing(st) ==
    IF st.tokens = <<>> THEN Anchors(st.out.stack)
    ELSE LET tok == Head(st.tokens)
             rest == Tail(st.tokens)
             ends == IF HasKey(BRACKET_TOKENS, tok) THEN {Get(BRACKET_TOKENS, tok)[1]}
                     ELSE IF tok = LinkOpen THEN {Pipe, LinkClose}
                     ELSE {}
         IN  IF ends # {} /\ \A i \in 1..Len(rest) : rest[i] \notin ends
             THEN <<IF tok = LinkOpen THEN LinkClose ELSE Get(BRACKET_TOKENS, tok)[1]>>
                  \o Anchors(st.out.stack)
             ELSE Missing(text_token(st))

Closers(cell) == Missing([out |-> HTML("auto_link"), tokens |-> Text(cell), token |-> None])

\* the row splitter reaches the end of the row inside a bracketed span
Unterminated(src) == ~AllClosed(Trimmed(src), RowOrder)

\* the rendering of the row with the closing tokens its last cell misses appended
Terminated(src, cell) == TableRow_html(TableRow(Trimmed(src) \o Join(Closers(cell))).cells)

\* a cell TableRow.html gives the class "code"
CodeCell(cell) ==
    /\ ~StartsWith(strip(cell), <<"=">>)
    /\ StartsWith(strip(cell), <<Grave>>)
    /\ EndsWith(strip(cell), <<Grave>>)

\* the pass of the splitter just made met a bracket-open token whose
\* closing token is not among the tokens after it
MetUnclosed ==
    /\ call.op = "row_token"
    /\ call.cells # <<>>
    /\ HasKey(bracket_tokens, call.token)
    /\ ~In(Get(bracket_tokens, call.token), Tail(call.tokens))

\* every token from the bracket-open token on went to the cell that was
\* current, no cell was created and no error raised
Absorbed ==
    /\ raised = NoExc
    /\ tokens = <<>>
    /\ Len(cells) = Len(call.cells)
    /\ Front(cells) = Front(call.cells)
    /\ Last(cells) = Last(call.cells) \o call.tokens

\* the closing tokens missed, appended to the cell, are lexed as themselves,
\* and leave the cell's padding and its being a code cell as they were
AppendsCleanly(cell) ==
    /\ Text(cell \o Join(Closers(cell))) = Text(cell) \o Closers(cell)
    /\ Last(cell) \notin Whitespace
    /\ CodeCell(cell \o Join(Closers(cell))) = CodeCell(cell)

\* C10 as stated: a row with a bracket-open token that is never closed
\* raises no error, absorbs every later token into the current cell, and
\* renders as the same row with the missing closing tokens appended.
C10_UnclosedRendersAsClosed ==
    /\ MetUnclosed => Absorbed
    /\ Unterminated(source) => pc # "raised"
    /\ (pc = "done" /\ Unterminated(source) /\ Closers(Last(cells)) # <<>>) =>
           html(out) = html(Terminated(source, Last(cells)))

\* C10 amended: no error and the absorption as stated; the rendered row
\* equals that of the row with the missing closing tokens appended when
\* those tokens, appended, are lexed as themselves and change neither the
\* padding of the cell nor its being a code cell.
C10_UnclosedAbsorbedAndRendered ==
    /\ MetUnclosed => Absorbed
    /\ Unterminated(source) => pc # "raised"
    /\ (/\ pc = "done"
        /\ Unterminated(source)
        /\ Closers(Last(cells)) # <<>>
        /\ AppendsCleanly(Last(cells))) =>
           html(out) = html(Terminated(source, Last(cells)))

C10_Witness ==
    /\ pc = "done"
    /\ Unterminated(source)
    /\ Len(Closers(Last(cells))) = 2
    /\ AppendsCleanly(Last(cells))
    /\ Count("|", Last(cells)) >= 1
    /\ html(out) = html(Terminated(source, Last(cells)))

\* a row that starts with "|" and ends neither in "|" nor in whitespace
Untrailed(r) ==
    /\ StartsWith(r, Pipe)
    /\ Last(r) \notin Whitespace \cup {"|"}

\* the cells and the HTML of a row
Rendered(r) == [cells |-> TableRow(r).cells, html |-> html(TableRow_html(TableRow(r).cells))]

\* a "|" put after r is a delimiter: unescaped and outside bracketed spans
Delimits(r) == TopPipes(r \o Pipe, RowOrder) = TopPipes(r, RowOrder) + 1

\* r, r with one "|", and r with "|" and whitespace give the same row
SameWhenTrailed(r) ==
    /\ Rendered(r \o Pipe) = [cells |-> cells, html |-> html(out)]
    /\ Rendered(r \o Pipe \o <<" ">>) = [cells |-> cells, html |-> html(out)]

-----------------------------------------------------------------------------
(* Table rows of plain, padded and header cells: TableRow(source) and      *)
(* TableRow.html on rows of at most MaxCellPieces pieces.                  *)

CellPieces == {Pipe, <<" ">>, <<"=">>, <<"a">>, Strong}

CellInputs == {Pipe \o s : s \in Concats(CellPieces, MaxCellPieces)}

CellInit ==
    /\ source \in CellInputs
    /\ tokens = row_tokens(source)
    /\ token = None
    /\ cells = <<>>
    /\ out = HTML("entities")
    /\ pre = out
    /\ call = [op |-> "init"]
    /\ raised = NoExc
    /\ calls = 0
    /\ doc = NoDocument
    /\ pc = "row"

CellSpec == CellInit /\ [][RowNext]_vars

\* the fragments of a rendered row between "<tr>" and "</tr>", cell by cell:
\* the opening tag of the cell and the HTML inside it
RECURSIVE ParseCells(_)
ParseCells(frags) ==
    IF Len(frags) < 2 THEN <<>>
    ELSE IF IsEndTag(frags[2]) /\ TagName(frags[2]) = TagName(frags[1])
    THEN <<[open |-> frags[1], inner |-> <<>>]>> \o ParseCells(SubSeq(frags, 3, Len(frags)))
    ELSE <<[open |-> frags[1], inner |-> frags[2]]>> \o ParseCells(SubSeq(frags, 4, Len(frags)))

RenderedCells == ParseCells(SubSeq(out.tokens, 2, Len(out.tokens) - 1))

\* a cell whose stripped content starts with the header marker
IsHeader(cell) == StartsWith(strip(cell), <<"=">>)

\* the stripped content of a header cell with the marker removed
Unmarked(cell) == Tail(strip(cell))

\* C12: a cell whose stripped content starts with "=" is rendered as th with
\* that marker removed from its content, whatever whitespace surrounds the
\* marker; every other cell is rendered as td.
C12_HeaderCellLosesMarker ==
    pc = "done" =>
        /\ Len(RenderedCells) = Len(cells)
        /\ \A i \in 1..Len(cells) :
              IF IsHeader(cells[i])
              THEN /\ TagName(RenderedCells[i].open) = <<"t", "h">>
                   /\ RenderedCells[i].inner \in {html(Text_html(Unmarked(cells[i]))),
                                                  html(Text_html(strip(Unmarked(cells[i]))))}
              ELSE TagName(RenderedCells[i].open) = <<"t", "d">>

\* sub occurs in s
Contains(s, sub) == \E i \in 0..(Len(s) - Len(sub)) : SubSeq(s, i + 1, i + Len(sub)) = sub

\* the content of a cell with the whitespace around it: the cell itself, and
\* for a header cell the cell without its marker
Padded(cell) ==
    IF IsHeader(cell)
    THEN SubSeq(cell, 1, Len(cell) - Len(lstrip(cell))) \o Tail(lstrip(cell))
    ELSE cell

\* the alignment the padding of a content stands for
Alignment(content) ==
    LET before == content # <<>> /\ Head(content) \in Whitespace
        after == content # <<>> /\ Last(content) \in Whitespace
    IN  IF before /\ after THEN <<"c", "e", "n", "t", "e", "r">>
        ELSE IF after THEN <<"l", "e", "f", "t">>
        ELSE IF before THEN <<"r", "i", "g", "h", "t">>
        ELSE None

StyleAttribute(align) == <<"s", "t", "y", "l", "e", "=", "\"">> \o TextAlign(align) \o <<"\"">>

\* C13: for every cell, data or header, with content between its padding:
\* padded on both sides gives text-align:center, only after gives left,
\* only before gives right, on neither side gives no style attribute; when
\* an alignment is set the inline renderer is given the stripped content.
C13_PaddingDecidesAlignment ==
    pc = "done" =>
        \A i \in 1..Len(cells) :
            strip(Padded(cells[i])) # <<>> =>
                LET align == Alignment(Padded(cells[i]))
                    open == RenderedCells[i].open
                IN  IF align = None
                    THEN ~Contains(open, <<"s", "t", "y", "l", "e", "=">>)
                    ELSE /\ Contains(open, StyleAttribute(align))
                         /\ RenderedCells[i].inner = html(Text_html(strip(Padded(cells[i]))))

-----------------------------------------------------------------------------
(* Document(source) one line at a time, on documents of at most            *)
(* MaxDocLines lines: of fences and the lines they may enclose, of         *)
(* headings, and of list items.                                            *)

Line(text) == Append(text, "\n")

FenceLines ==
    {Line(Code_BLOCK_DELIMITER), Line(Preformatted_BLOCK_START), Line(Preformatted_BLOCK_END),
     Line(Quote_BLOCK_DELIMITER), Line(<<"=", " ", "a">>), Line(<<"*", " ", "a">>),
     Line(<<"|", "a">>), Line(<<>>)}

HeadingLines ==
    {Line(<<"=">>), Line(<<"=", " ", "a">>), Line(<<"=", " ", "b">>),
     Line(<<"=", "=", " ", "c">>), Line(<<"a">>)}

ListLines ==
    {Line(<<"*", " ", "a">>), Line(<<"*", "#", " ", "b">>), Line(<<"*", "*", " ", "c">>),
     Line(<<"#", " ", "d">>), Line(<<"a">>), Line(<<>>)}

DocInputs ==
    Concats(FenceLines, MaxDocLines) \cup Concats(HeadingLines, MaxDocLines)
        \cup Concats(ListLines, MaxDocLines)

DocInit ==
    /\ source \in DocInputs
    /\ doc = Document(source)
    /\ tokens = <<>>
    /\ token = None
    /\ cells = <<>>
    /\ out = HTML("entities")
    /\ pre = out
    /\ call = [op |-> "init"]
    /\ raised = NoExc
    /\ calls = 0
    /\ pc = "document"

\* one pass of the loop of Document.__init__
DocLine ==
    /\ pc = "document"
    /\ doc.lines # <<>>
    /\ doc' = document_line([doc EXCEPT !.lines = Tail(@)], Head(doc.lines))
    /\ call' = [op |-> "line", line |-> Head(doc.lines), doc |-> doc]
    /\ UNCHANGED <<out, pre, raised, calls, source, tokens, token, cells, pc>>

\* the end of input
DocEnd ==
    /\ pc = "document"
    /\ doc.lines = <<>>
    /\ doc' = document_end(doc)
    /\ call' = [op |-> "end", doc |-> doc]
    /\ pc' = "parsed"
    /\ UNCHANGED <<out, pre, raised, calls, source, tokens, token, cells>>

DocNext == DocLine \/ DocEnd

DocSpec == DocInit /\ [][DocNext]_vars

\* the fenced block types with their end fences
Fences ==
    [Preformatted |-> Preformatted_BLOCK_END, Code |-> Code_BLOCK_DELIMITER,
     Quote |-> Quote_BLOCK_DELIMITER]

IsFenced(block) == block.content_type \in DOMAIN Fences

\* the text a line object of a fenced block holds
Verbatim(object) ==
    IF object.type = "Preformatted" THEN object.text
    ELSE IF object.type = "Code" THEN object.line
    ELSE Join(object.text)

\* C14: while a fenced block is open every line read becomes a verbatim line
\* of that block, whatever it looks like, until a line starts with the
\* block's own end fence, which closes the block; at the end of input an
\* open fenced block with lines is emitted, without error.
C14_FencedLinesAreVerbatim ==
    /\ (call.op = "line" /\ IsFenced(call.doc.block)) =>
          IF StartsWith(call.line, Fences[call.doc.block.content_type])
          THEN /\ doc.block = Block(Untyped, None)
               /\ doc.blocks = Document_append(call.doc.blocks, call.doc.block)
          ELSE /\ doc.blocks = call.doc.blocks
               /\ doc.block.content_type = call.doc.block.content_type
               /\ doc.block.metadata = call.doc.block.metadata
               /\ Front(doc.block.lines) = call.doc.block.lines
               /\ Last(doc.block.lines).type = call.doc.block.content_type
               /\ Verbatim(Last(doc.block.lines)) = call.line
    /\ (call.op = "end" /\ IsFenced(call.doc.block) /\ call.doc.block.lines # <<>>) =>
          /\ raised = NoExc
          /\ doc.blocks = Append(call.doc.blocks, call.doc.block)

C14_Witness ==
    /\ call.op = "end"
    /\ call.doc.block.content_type = "Code"
    /\ Len(call.doc.block.lines) = 3
    /\ Verbatim(call.doc.block.lines[1]) = Line(<<"=", " ", "a">>)
    /\ Verbatim(call.doc.block.lines[2]) = Line(Preformatted_BLOCK_END)
    /\ Verbatim(call.doc.block.lines[3]) = Line(Quote_BLOCK_DELIMITER)
    /\ Last(doc.blocks) = call.doc.block

\* the headings of a parsed document in the order of their lines
RECURSIVE Headings(_)
Headings(blocks) ==
    IF blocks = <<>> THEN <<>>
    ELSE (IF Head(blocks).content_type = "Heading" THEN Head(blocks).lines ELSE <<>>)
         \o Headings(Tail(blocks))

\* the earliest heading whose level is the least of all
TopHeading(hs) ==
    hs[CHOOSE i \in 1..Len(hs) :
          /\ \A j \in 1..Len(hs) : hs[i].level <= hs[j].level
          /\ \A j \in 1..(i - 1) : hs[j].level > hs[i].level]

\* C15: after parsing, the title is the text of the earliest heading whose
\* level is the minimum over all headings of the document, and it is absent
\* when the document has no heading.
C15_TitleIsEarliestTopHeading ==
    pc = "parsed" =>
        doc.title = IF Headings(doc.blocks) = <<>> THEN None
                    ELSE TopHeading(Headings(doc.blocks)).text

\* any two items of the block are compatible
PairwiseCompatible(block) ==
    \A i, j \in 1..Len(block.lines) : compatible(block.lines[i], block.lines[j])

\* the pass just made read a list line while a list block with items was open
ReadListItem ==
    /\ call.op = "line"
    /\ call.doc.block.content_type = "ListItem"
    /\ call.doc.block.lines # <<>>
    /\ ListItem_check(lstrip(rstrip(call.line)), "ListItem")

\* C16: any two list items of the same ListItem block are compatible, and a
\* list line that is not compatible with the current run closes that run
\* and starts a new ListItem block.
C16_ListRunsAreCompatible ==
    /\ doc # NoDocument =>
          /\ doc.block.content_type = "ListItem" => PairwiseCompatible(doc.block)
          /\ \A i \in 1..Len(doc.blocks) :
                doc.blocks[i].content_type = "ListItem" => PairwiseCompatible(doc.blocks[i])
    /\ ReadListItem =>
          LET item == ListItem(lstrip(rstrip(call.line)))
          IN  IF \A k \in 1..Len(call.doc.block.lines) :
                     compatible(call.doc.block.lines[k], item)
              THEN doc.block.lines = Append(call.doc.block.lines, item)
              ELSE /\ doc.block.lines = <<item>>
                   /\ doc.blocks = Append(call.doc.blocks, call.doc.block)

-----------------------------------------------------------------------------
(* Blocks of a parsed document driven by a caller of Block.append: the     *)
(* document is parsed line by line, then at most MaxAppends line objects   *)
(* of any class are appended to its blocks.                                *)

MaxBlockLines == 3
MaxAppends == 2

BlockLines ==
    { Line(<<"=", " ", "a">>), Line(<<"-", "-", "-", "-">>), Line(<<"*", " ", "a">>),
      Line(<<"|", "a">>), Line(<<"a">>), Line(<<"{", "{", "{">>),
      Line(<<Grave, Grave, Grave>>), Line(<<"\"", "\"", "\"">>) }

BlockInputs == Concats(BlockLines, MaxBlockLines)

\* one line object of every class, and a str
LineObjects ==
    { Heading(<<"=", " ", "b">>), HorizontalRule(<<"-", "-", "-", "-">>),
      ListItem(<<"#", " ", "b">>), Preformatted(<<"b">>), Code(<<"b">>),
      Quote(<<"b">>), Row(<<"|", "b">>), Paragraph(<<"b">>) }

BlockInit ==
    /\ source \in BlockInputs
    /\ doc = Document(source)
    /\ tokens = <<>>
    /\ token = None
    /\ cells = <<>>
    /\ out = HTML("entities")
    /\ pre = out
    /\ call = [op |-> "init"]
    /\ raised = NoExc
    /\ calls = 0
    /\ pc = "document"

\* doc.blocks[i].append(line); an exception leaves the document as it was
BlockAppend(i, line) ==
    /\ pc = "parsed"
    /\ calls < MaxAppends
    /\ \E b \in {Block_append(doc.blocks[i], line)} :
          /\ raised' = b.exc
          /\ doc' = [doc EXCEPT !.blocks[i] = [b EXCEPT !.exc = NoExc]]
    /\ call' = [op |-> "append", index |-> i, line |-> line, doc |-> doc]
    /\ calls' = calls + 1
    /\ UNCHANGED <<out, pre, source, tokens, token, cells, pc>>

BlockNext ==
    \/ DocLine
    \/ DocEnd
    \/ \E i \in 1..Len(doc.blocks) : \E line \in LineObjects : BlockAppend(i, line)

BlockSpec == BlockInit /\ [][BlockNext]_vars

\* every line of the block is of the class the block names
WellTyped(block) ==
    block.content_type # Untyped =>
        \A k \in 1..Len(block.lines) : block.lines[k].type = block.content_type

\* the call just made appended a line of another class to a typed block
Mismatched ==
    /\ call.op = "append"
    /\ call.doc.blocks[call.index].content_type \notin {Untyped, call.line.type}

\* C17: every line of a typed block, in the blocks of a document and in the
\* block being filled, is of the block's content_type; an append of a line
\* of another class ends with the type mismatch and leaves the lines of
\* every block as they were.
C17_BlockLinesMatchContentType ==
    /\ WellTyped(doc.block)
    /\ \A i \in 1..Len(doc.blocks) : WellTyped(doc.blocks[i])
    /\ Mismatched => raised = TypeMismatch /\ doc.blocks = call.doc.blocks
    /\ (call.op = "append" /\ ~Mismatched) =>
          /\ raised = NoExc
          /\ doc.blocks[call.index].lines
                = Append(call.doc.blocks[call.index].lines, call.line)

\* a line of another class was refused by a typed block that holds lines
C17_Witness ==
    /\ Mismatched
    /\ raised = TypeMismatch
    /\ doc.blocks[call.index].lines # <<>>
    /\ call.line.type # "str"

-----------------------------------------------------------------------------
(* Literal runs of an inline span                                          *)

\* one of the markers of the inline partitioner stands at position i of src
MarkerAt(src, i) ==
    \E m \in TextMarkers : i + Len(m) - 1 <= Len(src) /\ SubSeq(src, i, i + Len(m) - 1) = m

\* the span is one literal run: no marker stands at a character that is not
\* the escape character, and none stands right after an escape character
LiteralRun(src) ==
    /\ src # <<>>
    /\ \A i \in 1..Len(src) :
          IF src[i] = "~" THEN ~MarkerAt(src, i + 1) ELSE ~MarkerAt(src, i)

\* C18: a span that is one literal run, with escape characters that no
\* marker follows at its start, in its middle or at its end, is rendered
\* with every character kept: the escape characters appear as "~" and the
\* result is the entity-escaped span.
C18_UnmatchedEscapeIsLiteral ==
    (pc = "done" /\ LiteralRun(source) /\ auto_link(source) = entities(source))
        => html(out) = entities(source)

-----------------------------------------------------------------------------
(* Document(source).html: the document is parsed line by line, then its    *)
(* blocks are rendered one by one, calls counting the blocks rendered.     *)

MaxHtmlLines == 3

\* spans without markers: with entity characters, and one the URI pattern matches
Spans == { <<"a", "&">>, <<"<", "'">>, <<"w", "w", "w", ".", "a", "b">> }

HtmlLines ==
    { Line(<<Grave, Grave, Grave>>), Line(<<Grave, Grave, Grave, "a">>) }
    \cup { Line(prefix \o span) : prefix \in {<<>>, Pipe, <<"*", " ">>}, span \in Spans }

HtmlInputs == Concats(HtmlLines, MaxHtmlLines)

HtmlInit ==
    /\ source \in HtmlInputs
    /\ doc = Document(source)
    /\ tokens = <<>>
    /\ token = None
    /\ cells = <<>>
    /\ out = HTML("entities")
    /\ pre = out
    /\ call = [op |-> "init"]
    /\ raised = NoExc
    /\ calls = 0
    /\ pc = "document"

\* the outcomes the search for a lexer can have for the block: no lexer is
\* found by name for the empty alias
Lexers(block) ==
    IF block.content_type = "Code"
    THEN {Guessed, NoLexer} \cup (IF lang_of(block) # <<>> THEN {ByName} ELSE {})
    ELSE {NoLexer}

\* one pass of the loop of Document.html
DocBlock(lexer) ==
    /\ pc = "parsed"
    /\ calls < Len(doc.blocks)
    /\ lexer \in Lexers(doc.blocks[calls + 1])
    /\ \E o \in {block_html(out, doc.blocks[calls + 1], lexer)} :
          /\ out' = o
          /\ raised' = o.exc
          /\ pc' = IF o.exc # NoExc THEN "raised" ELSE "parsed"
    /\ pre' = out
    /\ call' = [op |-> "block", block |-> doc.blocks[calls + 1], lexer |-> lexer]
    /\ calls' = calls + 1
    /\ UNCHANGED <<source, tokens, token, cells, doc>>

\* return out.html
DocHtml ==
    /\ pc = "parsed"
    /\ calls = Len(doc.blocks)
    /\ pc' = "rendered"
    /\ pre' = out
    /\ call' = [op |-> "html"]
    /\ UNCHANGED <<out, raised, calls, source, tokens, token, cells, doc>>

HtmlNext ==
    \/ DocLine
    \/ DocEnd
    \/ \E lexer \in {ByName, Guessed, NoLexer} : DocBlock(lexer)
    \/ DocHtml

HtmlSpec == HtmlInit /\ [][HtmlNext]_vars

\* what the pass just made added to the html of the document
BlockOutput == SubSeq(html(out), Len(html(pre)) + 1, Len(html(out)))

\* the span holds no marker and no escape character
NoMarkers(span) == \A i \in 1..Len(span) : span[i] # "~" /\ ~MarkerAt(span, i)

\* the URI pattern matches somewhere in the span
HasUri(span) == \E i \in 1..Len(span) : MatchEnd(span, i) # 0

\* the cells of the rows of a table block, one after the other
RECURSIVE CellsOf(_, _)
CellsOf(lines, i) == IF i > Len(lines) THEN <<>> ELSE lines[i].cells \o CellsOf(lines, i + 1)

\* the inline spans of a block of text, of list items or of table rows
SpansOf(block) ==
    CASE block.content_type = Untyped -> <<join_lines(block.lines, 1)>>
      [] block.content_type = "ListItem" ->
            [k \in 1..Len(block.lines) |-> Join(block.lines[k].item)]
      [] block.content_type = "TableRow" -> CellsOf(block.lines, 1)
      [] OTHER -> <<>>

\* a paragraph, a list of one level and one kind, or a table whose cells
\* have no header sign and no padding, with spans that hold no marker
PlainBlock(block) ==
    /\ SpansOf(block) # <<>>
    /\ \A k \in 1..Len(SpansOf(block)) :
          /\ SpansOf(block)[k] # <<>>
          /\ NoMarkers(SpansOf(block)[k])
          /\ strip(SpansOf(block)[k]) = SpansOf(block)[k]
          /\ block.content_type = "TableRow" => Head(SpansOf(block)[k]) # "="
    /\ block.content_type = "ListItem" =>
          \A k \in 1..Len(block.lines) : block.lines[k].signature = <<"*">>

\* <t>inner</t>
Wrapped(t, inner) == <<"<">> \o t \o <<">">> \o inner \o <<"<", "/">> \o t \o <<">">>

\* every span in its element t, entity-escaped once
RECURSIVE EscapedIn(_, _, _)
EscapedIn(t, spans, i) ==
    IF i > Len(spans) THEN <<>>
    ELSE Wrapped(t, entities(spans[i])) \o EscapedIn(t, spans, i + 1)

RECURSIVE EscapedRows(_, _)
EscapedRows(lines, i) ==
    IF i > Len(lines) THEN <<>>
    ELSE Wrapped(<<"t", "r">>, EscapedIn(<<"t", "d">>, lines[i].cells, 1))
         \o EscapedRows(lines, i + 1)

\* the block with nothing but its elements and its spans escaped once
EscapedBlock(block) ==
    CASE block.content_type = Untyped -> EscapedIn(<<"p">>, SpansOf(block), 1)
      [] block.content_type = "ListItem" ->
            Wrapped(<<"u", "l">>, EscapedIn(<<"l", "i">>, SpansOf(block), 1))
      [] block.content_type = "TableRow" ->
            Wrapped(<<"t", "a", "b", "l", "e">>, EscapedRows(block.lines, 1))

\* C19 as stated: a span without markers is rendered, in its paragraph, list
\* item or cell, as its own text with & ' " < > replaced once by their
\* entities, no tag added.
C19_PlainSpanRendersEscaped ==
    (call.op = "block" /\ PlainBlock(call.block)) => BlockOutput = EscapedBlock(call.block)

\* C19: a span without markers that the URI pattern does not match is
\* rendered, in its paragraph, list item or cell, as its own text with
\* & ' " < > replaced once by their entities: no tag is added inside the
\* element and nothing is escaped twice.
C19_PlainSpanWithoutUriRendersEscaped ==
    (/\ call.op = "block"
     /\ PlainBlock(call.block)
     /\ \A k \in 1..Len(SpansOf(call.block)) : ~HasUri(SpansOf(call.block)[k]))
        => BlockOutput = EscapedBlock(call.block)

\* a list of two items with entity characters and no URI has been rendered
C19_Witness ==
    /\ call.op = "block"
    /\ call.block.content_type = "ListItem"
    /\ PlainBlock(call.block)
    /\ Len(SpansOf(call.block)) = 2
    /\ \A k \in 1..2 : ~HasUri(SpansOf(call.block)[k])
    /\ In("&", SpansOf(call.block)[1])
    /\ In("<", SpansOf(call.block)[2])
    /\ raised = NoExc

\* the language tag of the code block is absent or get_lexer_by_name knows
\* no lexer of that name
Unrecognized(block, lexer) == lang_of(block) = <<>> \/ lexer # ByName

\* C20: a code block whose language tag is absent or not recognized by the
\* highlighter is rendered as <pre>, its concatenated source entity-escaped,
\* </pre>, without an exception; the output of the highlighter is used only
\* for a recognized tag.
C20_UnrecognizedLanguageFallsBackToPre ==
    (call.op = "block" /\ call.block.content_type = "Code") =>
        /\ raised = NoExc
        /\ BlockOutput =
              IF Unrecognized(call.block, call.lexer)
              THEN Wrapped(<<"p", "r", "e">>, entities(code_source(call.block.lines, 1)))
              ELSE highlight(code_source(call.block.lines, 1))

-----------------------------------------------------------------------------
(* Deferred text of the writer                                             *)

\* the fragments the call just made wrote itself, for the three writes
OwnFragments ==
    CASE call.op = "write_html" -> <<call.html>>
      [] call.op = "write_raw" -> Chars(call.text)
      [] call.op = "write_text" -> Chars(entities(call.text))

\* C21: a deferred write_text emits nothing and adds its text to the end of
\* the pending buffer; every other call that succeeds (non-deferred
\* write_text, write_html, write_raw, tag, start_tag, end_tag, element,
\* close) leaves the buffer empty and emits the whole pending text,
\* processed as one unit, after what was emitted before and before its own
\* fragments; a call that fails emits nothing.
C21_DeferredTextFlushedInOrder ==
    call.op # "init" =>
        IF call.op = "write_text" /\ call.post_process
        THEN /\ out.tokens = pre.tokens
             /\ out.token_buffer = pre.token_buffer \o Chars(call.text)
        ELSE IF raised # NoExc
        THEN out.tokens = pre.tokens /\ out.token_buffer = pre.token_buffer
        ELSE /\ out.token_buffer = <<>>
             /\ Len(out.tokens) >= Len(Flushed(pre))
             /\ SubSeq(out.tokens, 1, Len(Flushed(pre))) = Flushed(pre)
             /\ call.op \in {"write_html", "write_raw", "write_text"} =>
                   out.tokens = Flushed(pre) \o OwnFragments
             /\ call.op \in {"tag", "start_tag"} => Len(out.tokens) = Len(Flushed(pre)) + 1

\* text deferred by two writes after earlier output has been emitted, as one
\* fragment, by a write_html
C21_Witness ==
    /\ call.op = "write_html"
    /\ pre.tokens # <<>>
    /\ In(<<"&">>, pre.token_buffer)
    /\ In(<<"w">>, pre.token_buffer)
    /\ out.token_buffer = <<>>
    /\ Len(out.tokens) = Len(pre.tokens) + 2
    /\ Last(out.tokens) = call.html

-----------------------------------------------------------------------------
(* Document(source).html on documents of list items of several levels      *)

MaxRunLines == 4

RunLines == ListLines \cup {Line(<<"*", "*", "*", " ", "e">>)}

RunInputs == Concats(RunLines, MaxRunLines)

ListInit ==
    /\ source \in RunInputs
    /\ doc = Document(source)
    /\ tokens = <<>>
    /\ token = None
    /\ cells = <<>>
    /\ out = HTML("entities")
    /\ pre = out
    /\ call = [op |-> "init"]
    /\ raised = NoExc
    /\ calls = 0
    /\ pc = "document"

ListSpec == ListInit /\ [][HtmlNext]_vars

\* the writer once the first k items of the run have been written on o
RECURSIVE AfterItem(_, _, _)
AfterItem(o, lines, k) ==
    IF k = 0 THEN o
    ELSE list_item_html(AfterItem(o, lines, k - 1),
                        IF k = 1 THEN 0 ELSE lines[k - 1].level, lines[k])

\* the entries of the stack of o above the n entries it had before the run
Containers(o, n) == SubSeq(o.stack, n + 1, Len(o.stack))

\* C22: in the rendering of a run of list items, when the li of an item is
\* written the tags opened on the stack since the start of the run are ol
\* and ul tags and as many as the level of the item; after the run the
\* stack is as it was before, and no exception has been raised.
C22_ListContainersMatchLevel ==
    (call.op = "block" /\ call.block.content_type = "ListItem") =>
        /\ \A k \in 1..Len(call.block.lines) :
              /\ AfterItem(pre, call.block.lines, k).exc = NoExc
              /\ Len(Containers(AfterItem(pre, call.block.lines, k), Len(pre.stack)))
                    = call.block.lines[k].level
              /\ \A j \in 1..call.block.lines[k].level :
                    Containers(AfterItem(pre, call.block.lines, k), Len(pre.stack))[j]
                        \in {<<"o", "l">>, <<"u", "l">>}
        /\ raised = NoExc
        /\ out.stack = pre.stack

\* a run whose levels rise to 3 and fall by two at once has been rendered
C22_Witness ==
    /\ call.op = "block"
    /\ call.block.content_type = "ListItem"
    /\ Len(call.block.lines) = 3
    /\ call.block.lines[2].level = 3
    /\ call.block.lines[3].level = 1
    /\ Len(AfterItem(pre, call.block.lines, 2).stack) = 3
    /\ Len(AfterItem(pre, call.block.lines, 3).stack) = 1
    /\ out.stack = <<>>

-----------------------------------------------------------------------------
(* Toggle tags of the inline renderer                                      *)

ToggleTags == {e[2] : e \in TOGGLE_TOKENS}

\* C23: no toggle tag (em, q, strong, sub, sup) is twice on the stack of
\* the inline renderer; a toggle token whose tag is not open pushes the
\* tag, and one whose tag is open closes it with every tag opened after it,
\* leaving the stack as it was below the tag.
C23_ToggleTagOpenAtMostOnce ==
    /\ \A t \in ToggleTags : Count(t, out.stack) <= 1
    /\ (call.op = "text_token" /\ HasKey(TOGGLE_TOKENS, call.token)) =>
          /\ raised = NoExc
          /\ out.stack =
                IF In(Get(TOGGLE_TOKENS, call.token), pre.stack)
                THEN SubSeq(pre.stack, 1,
                            Topmost(pre.stack, Get(TOGGLE_TOKENS, call.token)) - 1)
                ELSE Append(pre.stack, Get(TOGGLE_TOKENS, call.token))

\* a toggle token has closed its tag and the link opened after it
C23_Witness ==
    /\ call.op = "text_token"
    /\ HasKey(TOGGLE_TOKENS, call.token)
    /\ pre.stack = <<Get(TOGGLE_TOKENS, call.token), <<"a">>>>
    /\ out.stack = <<>>

-----------------------------------------------------------------------------
(* The block list of a document                                            *)

\* the blocks the pass just made added to the block list
AddedBlocks == SubSeq(doc.blocks, Len(call.doc.blocks) + 1, Len(doc.blocks))

\* the block that was open is still open, with its lines and perhaps one more
StillOpen ==
    /\ call.doc.block.lines # <<>>
    /\ doc.block.content_type = call.doc.block.content_type
    /\ Len(doc.block.lines) >= Len(call.doc.block.lines)
    /\ SubSeq(doc.block.lines, 1, Len(call.doc.block.lines)) = call.doc.block.lines

\* the block that was open, if it has lines
OpenBlock == IF call.doc.block.lines # <<>> THEN <<call.doc.block>> ELSE <<>>

\* C24: every block of the block list has at least one line, also while the
\* document is parsed; a pass over a line leaves the blocks already listed
\* as they are and in their places, and lists after them first the block
\* that was open, if the line closes it and it has lines, then at most one
\* block of the one line just read, so that blocks are listed in the order
\* of their first lines; a block without lines is never listed.
C24_BlocksNonEmptyInSourceOrder ==
    doc # NoDocument =>
        /\ \A i \in 1..Len(doc.blocks) : doc.blocks[i].lines # <<>>
        /\ call.op \in {"line", "end"} =>
              /\ Len(doc.blocks) >= Len(call.doc.blocks)
              /\ SubSeq(doc.blocks, 1, Len(call.doc.blocks)) = call.doc.blocks
        /\ call.op = "end" => AddedBlocks = OpenBlock
        /\ call.op = "line" =>
              IF StillOpen THEN AddedBlocks = <<>> /\ Len(doc.block.lines) <= Len(call.doc.block.lines) + 1
              ELSE /\ Len(doc.block.lines) <= 1
                   /\ \/ AddedBlocks = OpenBlock
                      \/ /\ Len(AddedBlocks) = Len(OpenBlock) + 1
                         /\ SubSeq(AddedBlocks, 1, Len(OpenBlock)) = OpenBlock
                         /\ Len(Last(AddedBlocks).lines) = 1
                         /\ doc.block.lines = <<>>

\* a fenced block has been closed without content lines, after an earlier
\* block, and nothing has been listed for it
C24_Witness ==
    /\ call.op = "line"
    /\ IsFenced(call.doc.block)
    /\ call.doc.block.lines = <<>>
    /\ doc.block.content_type = Untyped
    /\ call.doc.blocks # <<>>
    /\ doc.blocks = call.doc.blocks

-----------------------------------------------------------------------------
(* Partitioner.partition run pass by pass: call holds the partitioner and  *)
(* the locals p and q of the generator, tokens the tokens yielded so far.  *)

MaxLexLen == 5

LexChars == {"~", "|", "*", "a"}

LexInputs == UNION {[1..n -> LexChars] : n \in 0..MaxLexLen}

\* the two partitioners of the program; one without escape whose first
\* marker is a prefix of its second; one whose escape is two characters
\* long; one whose escape is the empty string
LexConfigs ==
    {TextPartitioner, RowPartitioner,
     Partitioner(None, <<<<"a">>, <<"a", "|">>, Strong>>),
     Partitioner(<<"~", "~">>, <<Pipe>>),
     Partitioner(<<>>, <<<<"*">>, <<"|", "|">>>>)}

LexInit ==
    /\ source \in LexInputs
    /\ call \in {[op |-> "partition", partitioner |-> P, p |-> 0, q |-> 0] : P \in LexConfigs}
    /\ tokens = <<>>
    /\ token = None
    /\ cells = <<>>
    /\ out = HTML("entities")
    /\ pre = out
    /\ raised = NoExc
    /\ calls = 0
    /\ doc = NoDocument
    /\ pc = "partition"

\* one pass of the while loop
LexStep ==
    /\ pc = "partition"
    /\ call.q < Len(source)
    /\ \E st \in {partition_step(call.partitioner, source, call.p, call.q)} :
          /\ tokens' = tokens \o st.yield
          /\ call' = [call EXCEPT !.p = st.p, !.q = st.q]
    /\ UNCHANGED <<out, pre, raised, calls, source, token, cells, doc, pc>>

\* the loop has ended
LexEnd ==
    /\ pc = "partition"
    /\ call.q >= Len(source)
    /\ tokens' = tokens \o partition_end(source, call.p, call.q)
    /\ pc' = "partitioned"
    /\ UNCHANGED <<out, pre, call, raised, calls, source, token, cells, doc>>

LexNext == LexStep \/ LexEnd

LexSpec == LexInit /\ [][LexNext]_vars

\* the generator is run to its end by whoever consumes it
LexFairSpec == LexSpec /\ WF_vars(LexNext)

\* the token is a marker, or the escape character and a marker
IsMarkerToken(P, tok) ==
    \E k \in 1..Len(P.markers) :
        \/ tok = P.markers[k]
        \/ Truthy(P.escape) /\ tok = P.escape \o P.markers[k]

\* the tokens yielded in the loop are the input up to p, none is empty, no two
\* literal runs are neighbours, and at the end they are the whole input and
\* the tokens of partition
Partitioned ==
    /\ pc = "partition" => Join(tokens) = SubSeq(source, 1, call.p)
    /\ \A i \in 1..Len(tokens) : tokens[i] # <<>>
    /\ \A i \in 1..(Len(tokens) - 1) :
          IsMarkerToken(call.partitioner, tokens[i])
              \/ IsMarkerToken(call.partitioner, tokens[i + 1])
    /\ pc = "partitioned" =>
          /\ Join(tokens) = source
          /\ tokens = partition(call.partitioner, source)

\* C25: for every partitioner and every input the generator comes to its
\* end, the tokens it has yielded joined in order are the input, no token
\* is empty and no two consecutive tokens are both literal runs.
C25_TokensPartitionTheInput == []Partitioned /\ <>(pc = "partitioned")

\* a literal run, an escaped marker and a literal run that begins with the
\* escape character have been yielded
C25_Witness ==
    /\ pc = "partitioned"
    /\ call.partitioner = RowPartitioner
    /\ tokens = <<<<"a">>, <<"~", "|">>, <<"~", "a">>>>

====
